---------------------------- MODULE Spec2Model ----------------------------
(***************************************************************************)
(* The predict-price edge function of WanderStay (src/unnamed/part_000):   *)
(* the request handler passed to serve(), the helper                       *)
(* getPriceInsightFromGemini, the price_predictions table it uses as a     *)
(* cache, and the three tables it reads.  Every await of the handler is a  *)
(* step boundary, so several requests interleave at their awaits.          *)
(* The data store answers every read; an insert may be rejected, and the   *)
(* handler does not read the insert's error.                               *)
(*                                                                         *)
(* Units.  Money is in whole rupees, except base_city_prices (min, avg,    *)
(* max), which are held in tenths of a rupee because hotel.price_per_night *)
(* * 0.8 need not be whole.  confidence_score and the demand multiplier    *)
(* are held in hundredths (0.6 is 60, 1.5 is 150).  Dates are the integer  *)
(* YYYYMMDD, whose order is the order of the dates.  Time is in hours.     *)
(***************************************************************************)
EXTENDS Integers, Sequences, FiniteSets, TLC

VARIABLES
    now,               \* the clock (new Date(), and the table's created_at default)
    cache,             \* the rows of price_predictions, in insertion order
    geminiApiKey,      \* Deno.env.get('GEMINI_API_KEY'): <<>> when not configured
    workload,          \* what this run offers: how many requests, which bodies, which answers
    issued,            \* how many requests have arrived
    pc,                \* per request: the await the handler is suspended at
    req,               \* per request: the parsed request body
    cacheExpiryTime,   \* per request: the handler's  cacheExpiryTime
    cachedPrediction,  \* per request: the handler's  cachedPrediction  (<<>> is null)
    hotel,             \* per request: the handler's  hotel       (<<>> is null)
    cityStats,         \* per request: the handler's  cityStats   (<<>> is null)
    cityDemand,        \* per request: the handler's  cityDemand  (<<>> is null)
    geminiAnswer,      \* per request: what the AI provider answered to fetch()
    aiRecommendation,  \* per request: the handler's  aiRecommendation
    response,          \* per request: the Response the handler returned
    log,               \* per request: its calls to the outside, in order
    completedBefore,   \* per request: the requests answered before it arrived
    stored,            \* per request: the row its insert added (<<>>: none)
    parseCall,         \* demand.ts: the last call of parseEvents (its argument)
    parsedEvents,      \* demand.ts: what that call returned
    demandCall,        \* demand.ts: the last call of calculateDemandContext
    demandContext,     \* demand.ts: what that call returned
    handlerLoop,       \* the handler's events loop run on its own: input and outcome
    filters,           \* the panel: the search store's filters (checkIn, checkOut)
    loading,           \* the panel: its  loading  state
    prediction,        \* the panel: its  prediction  state (<<>> is null)
    lastRequestTime,   \* the panel: its  lastRequestTime  state
    dateNow,           \* the panel: what Date.now() returns, in milliseconds
    invocation,        \* the panel: the functions.invoke awaited (<<>>: none)
    invoked,           \* the panel: the calls of functions.invoke made, in order
    toast              \* the panel: the title of its last call of toast() ("": none)

\* The variables of the predict-price function
handlerVars == <<now, cache, geminiApiKey, workload, issued, pc, req, cacheExpiryTime,
                 cachedPrediction, hotel, cityStats, cityDemand, geminiAnswer,
                 aiRecommendation, response, log, completedBefore, stored>>

\* The variables of the client library
libVars == <<parseCall, parsedEvents, demandCall, demandContext, handlerLoop>>

\* The variables of the price insight panel
panelVars == <<filters, loading, prediction, lastRequestTime, dateNow, invocation,
               invoked, toast>>

\* The variables outside the predict-price function
clientVars == <<libVars, panelVars>>

vars == <<handlerVars, clientVars>>

---------------------------------------------------------------------------
(* Bounds of the model *)

MaxRequests == 2
MaxSoloRequests == 1
MaxTime == 48
TickHours == 24
MaxElapsed == 4000

Reqs == 1..MaxRequests

(* Program constants *)

CACHE_DURATION_HOURS == 24
DEBOUNCE_MS == 2000

---------------------------------------------------------------------------
(* JavaScript values.  A value read out of parsed JSON carries its type.   *)

Num(n) == [t |-> "number", n |-> n, s |-> ""]
Str(s) == [t |-> "string", n |-> 0, s |-> s]
Undefined == [t |-> "undefined", n |-> 0, s |-> ""]

\* !v
Falsy(v) ==
    \/ v.t = "undefined"
    \/ v.t = "number" /\ v.n = 0
    \/ v.t = "string" /\ v.s = ""

\* Math.round(n / d) for d > 0: the nearest integer, a half rounds up
Round(n, d) == (2 * n + d) \div (2 * d)

\* s.startsWith(p)
StartsWith(s, p) == Len(s) >= Len(p) /\ SubSeq(s, 1, Len(p)) = p

\* s.replace(p, q): the first occurrence of p, if any
Replace(s, p, q) ==
    LET at == {i \in 1..(Len(s) - Len(p) + 1) : SubSeq(s, i, i + Len(p) - 1) = p}
    IN  IF at = {} THEN s
        ELSE LET i == CHOOSE k \in at : \A j \in at : k <= j
             IN  SubSeq(s, 1, i - 1) \o q \o SubSeq(s, i + Len(p), Len(s))

---------------------------------------------------------------------------
(* Text.  The events column is a string read character by character.  In   *)
(* the strings of this module "~" stands for the en dash (U+2013) of the   *)
(* events format and "-" is the hyphen of a date.                          *)

Char(s, i) == SubSeq(s, i, i)

\* \d
IsDigit(c) == c \in {"0", "1", "2", "3", "4", "5", "6", "7", "8", "9"}

DigitValue(c) ==
    CASE c = "0" -> 0 [] c = "1" -> 1 [] c = "2" -> 2 [] c = "3" -> 3 [] c = "4" -> 4
      [] c = "5" -> 5 [] c = "6" -> 6 [] c = "7" -> 7 [] c = "8" -> 8 [] c = "9" -> 9

\* s.split(sep) for a separator of one character
RECURSIVE Split(_, _)
Split(s, sep) ==
    LET at == {i \in 1..Len(s) : Char(s, i) = sep}
    IN  IF at = {} THEN <<s>>
        ELSE LET i == CHOOSE k \in at : \A j \in at : k <= j
             IN  <<SubSeq(s, 1, i - 1)>> \o Split(SubSeq(s, i + 1, Len(s)), sep)

\* \d{4}-\d{2}-\d{2} matches at position p
IsDatePattern(s, p) ==
    /\ p + 9 <= Len(s)
    /\ \A i \in {0, 1, 2, 3, 5, 6, 8, 9} : IsDigit(Char(s, p + i))
    /\ Char(s, p + 4) = "-"
    /\ Char(s, p + 7) = "-"

\* new Date("YYYY-MM-DD") of the ten characters at p, as the number YYYYMMDD
\* (dates compare as these numbers do)
DateValue(s, p) ==
    10000 * (1000 * DigitValue(Char(s, p)) + 100 * DigitValue(Char(s, p + 1))
               + 10 * DigitValue(Char(s, p + 2)) + DigitValue(Char(s, p + 3)))
    + 100 * (10 * DigitValue(Char(s, p + 5)) + DigitValue(Char(s, p + 6)))
    + 10 * DigitValue(Char(s, p + 8)) + DigitValue(Char(s, p + 9))

\* \((\d{4}-\d{2}-\d{2})~(\d{4}-\d{2}-\d{2})\) matches at position p
DateGroupAt(s, p) ==
    /\ p + 22 <= Len(s)
    /\ Char(s, p) = "("
    /\ IsDatePattern(s, p + 1)
    /\ Char(s, p + 11) = "~"
    /\ IsDatePattern(s, p + 12)
    /\ Char(s, p + 22) = ")"

\* The position of the first character after q that is not a blank (\s*)
AfterBlanks(s, q) ==
    LET rest == {i \in (q + 1)..Len(s) : Char(s, i) # " "}
    IN  IF rest = {} THEN Len(s) + 1 ELSE CHOOSE k \in rest : \A j \in rest : k <= j

\* eventStr.match(/(.+?)\s*\((\d{4}-\d{2}-\d{2})~(\d{4}-\d{2}-\d{2})\)/): null
\* (<<>>), or the groups of the match.  The search starts at the first
\* character (a match from a later start is also one from the first, with
\* a longer name); the name is the shortest, and has at least one character.
EventMatch(eventStr) ==
    LET ends == {q \in 1..Len(eventStr) : DateGroupAt(eventStr, AfterBlanks(eventStr, q))}
    IN  IF ends = {} THEN <<>>
        ELSE LET q == CHOOSE k \in ends : \A j \in ends : k <= j
                 p == AfterBlanks(eventStr, q)
             IN  <<[name |-> SubSeq(eventStr, 1, q),
                    start |-> DateValue(eventStr, p + 1),
                    end |-> DateValue(eventStr, p + 12)]>>

\* Lines 313-317 of the handler: cityDemand.events.split(';') and the match of
\* each part, as the entries the loop goes through.  An empty events string
\* is falsy and is not parsed.
HandlerEvents(eventsText) ==
    IF eventsText = "" THEN <<>>
    ELSE LET eventParts == Split(eventsText, ";")
         IN  [i \in 1..Len(eventParts) |->
                 IF EventMatch(eventParts[i]) = <<>>
                 THEN [wellFormed |-> FALSE, name |-> eventParts[i], start |-> 0, end |-> 0]
                 ELSE [wellFormed |-> TRUE, name |-> EventMatch(eventParts[i])[1].name,
                       start |-> EventMatch(eventParts[i])[1].start,
                       end |-> EventMatch(eventParts[i])[1].end]]

\* The events column of the city_demand rows
JaipurEvents ==
    "Teej 2025-08-01; (2025-09-05~2025-09-15);Diwali (2025-10-18~2025-10-22)"

MysuruEvents == "Dasara (2025-09-20~2025-10-02)"

\* What the handler's loop makes of them
JaipurEventEntries == HandlerEvents(JaipurEvents)

MysuruEventEntries == HandlerEvents(MysuruEvents)

---------------------------------------------------------------------------
(* The tables the handler reads.  A missing row is <<>>, a row is <<row>>. *)

hotels_india(id) ==
    IF id = "h1"
    THEN <<[id |-> "h1", hotel_name |-> "Hawa Haveli", city |-> "Jaipur",
            rating |-> 4, number_of_reviews |-> 120, price_per_night |-> 5001]>>
    ELSE IF id = "h3"
    THEN <<[id |-> "h3", hotel_name |-> "Lake Lodge", city |-> "Udaipur",
            rating |-> 5, number_of_reviews |-> 8, price_per_night |-> 1999]>>
    ELSE <<>>

city_price_stats(city) ==
    CASE city = "Jaipur" -> <<[min_price |-> 4000, avg_price |-> 5000, max_price |-> 7500]>>
      [] city = "Agra"   -> <<[min_price |-> 3000, avg_price |-> 5000, max_price |-> 5000]>>
      [] city = "Kochi"  -> <<[min_price |-> 2999, avg_price |-> 5000, max_price |-> 5000]>>
      [] city = "Pune"   -> <<[min_price |-> 5000, avg_price |-> 5000, max_price |-> 8000]>>
      [] city = "Indore" -> <<[min_price |-> 5000, avg_price |-> 5000, max_price |-> 8001]>>
      [] city = "Mysuru" -> <<[min_price |-> 4001, avg_price |-> 4001, max_price |-> 4002]>>
      [] OTHER -> <<>>

\* peak_months after split(',') and parseInt; events after split(';') and
\* the match of each part: an entry matches the handler's pattern
\* (wellFormed) or does not.
city_demand(city) ==
    CASE city = "Jaipur" ->
           <<[peak_months |-> <<10, 11, 12>>,
              events |-> JaipurEventEntries]>>
      [] city = "Mysuru" ->
           <<[peak_months |-> <<10>>,
              events |-> MysuruEventEntries]>>
      [] city = "Udaipur" ->
           <<[peak_months |-> <<10, 11>>, events |-> <<>>]>>
      [] OTHER -> <<>>

\* The request bodies that arrive.
Stay(hotel_id, city, check_in, check_out) ==
    [hotel_id |-> hotel_id, city |-> city, check_in |-> check_in,
     check_out |-> check_out, guests |-> 2, budget_min |-> 0, budget_max |-> 0]

StayRequests ==
    { Stay("h1", "Jaipur", 20251020, 20251023),
      Stay("h1", "Jaipur", 20250910, 20251023),
      Stay("h1", "Jaipur", 20251020, 20251025),
      Stay("h2", "Jaipur", 20251020, 20251023),
      Stay("h1", "Goa", 20251020, 20251023) }

NoRequest ==
    [hotel_id |-> "", city |-> "", check_in |-> 0, check_out |-> 0,
     guests |-> 0, budget_min |-> 0, budget_max |-> 0]

\* The request bodies of the pricing runs: two hotels, every city of the
\* tables and two cities without rows, check-in dates before, on the first
\* day of, inside, on the last day of and after the events and peak months
PricingStays ==
    { Stay(h, c, d[1], d[2]) :
        h \in {"h1", "h3"},
        c \in {"Jaipur", "Agra", "Kochi", "Pune", "Indore", "Mysuru", "Udaipur", "Goa"},
        d \in { <<20250801, 20250803>>, <<20250910, 20250912>>, <<20250925, 20250927>>,
                <<20251001, 20251003>>, <<20251017, 20251019>>, <<20251018, 20251019>>,
                <<20251020, 20251023>>, <<20251022, 20251024>>, <<20251023, 20251025>>,
                <<20251101, 20251103>>, <<20251020, 20251020>>, <<20251023, 20251020>> } }

---------------------------------------------------------------------------
(* Demand context and price range: the handler's lines 301-343.            *)

\* new Date(check_in).getMonth() + 1
Month(d) == (d \div 100) % 100

DaysBeforeMonth == <<0, 31, 59, 90, 120, 151, 181, 212, 243, 273, 304, 334>>

\* Days since an origin, for dates of years without a leap day
DayNumber(d) == (d \div 10000) * 365 + DaysBeforeMonth[Month(d)] + (d % 100)

\* Nights that never goes below one night
NightsClamped(rq) ==
    IF DayNumber(rq.check_out) - DayNumber(rq.check_in) < 1
    THEN 1 ELSE DayNumber(rq.check_out) - DayNumber(rq.check_in)

\* Math.ceil((checkOutDate.getTime() - checkInDate.getTime()) / (1000*60*60*24))
Nights(rq) == DayNumber(rq.check_out) - DayNumber(rq.check_in)

\* name.trim()
RECURSIVE TrimStart(_)
TrimStart(s) ==
    IF Len(s) > 0 /\ SubSeq(s, 1, 1) = " " THEN TrimStart(SubSeq(s, 2, Len(s))) ELSE s

RECURSIVE TrimEnd(_)
TrimEnd(s) ==
    IF Len(s) > 0 /\ SubSeq(s, Len(s), Len(s)) = " "
    THEN TrimEnd(SubSeq(s, 1, Len(s) - 1)) ELSE s

Trim(s) == TrimEnd(TrimStart(s))

\* peakMonths.includes(checkInMonth); no demand row gives []
IsPeakMonth(dem, rq) ==
    /\ dem # <<>>
    /\ \E i \in 1..Len(dem[1].peak_months) : dem[1].peak_months[i] = Month(rq.check_in)

\* EventHits that takes an event the stay overlaps, check_out included
EventHitsOverlap(dem, rq) ==
    IF dem = <<>> THEN {}
    ELSE {i \in 1..Len(dem[1].events) :
            /\ dem[1].events[i].wellFormed
            /\ rq.check_out >= dem[1].events[i].start
            /\ rq.check_in <= dem[1].events[i].end}

\* The entries of the events loop that match the pattern and contain check_in
EventHits(dem, rq) ==
    IF dem = <<>> THEN {}
    ELSE {i \in 1..Len(dem[1].events) :
            /\ dem[1].events[i].wellFormed
            /\ rq.check_in >= dem[1].events[i].start
            /\ rq.check_in <= dem[1].events[i].end}

EventActive(dem, rq) == EventHits(dem, rq) # {}

\* eventName: null (<<>>) or the trimmed name of the first hit (the loop breaks)
EventName(dem, rq) ==
    IF EventHits(dem, rq) = {} THEN <<>>
    ELSE LET i == CHOOSE k \in EventHits(dem, rq) : \A j \in EventHits(dem, rq) : k <= j
         IN  <<Trim(dem[1].events[i].name)>>

\* DemandMultiplier that compounds the two increases: 1.2 x 1.3 = 1.56
DemandMultiplierCompounding(dem, rq) ==
    ((IF IsPeakMonth(dem, rq) THEN 120 ELSE 100)
       * (IF EventActive(dem, rq) THEN 130 ELSE 100)) \div 100

\* demandMultiplier, in hundredths
DemandMultiplier(dem, rq) ==
    100 + (IF IsPeakMonth(dem, rq) THEN 20 ELSE 0)
        + (IF EventActive(dem, rq) THEN 30 ELSE 0)

\* BaseCityPrices with a hotel-derived range of 0.9, 1.0 and 1.1 times the price
BaseCityPricesNarrow(stats, h) ==
    [min |-> IF stats # <<>> /\ stats[1].min_price # 0
             THEN 10 * stats[1].min_price ELSE 9 * h[1].price_per_night,
     avg |-> IF stats # <<>> /\ stats[1].avg_price # 0
             THEN 10 * stats[1].avg_price ELSE 10 * h[1].price_per_night,
     max |-> IF stats # <<>> /\ stats[1].max_price # 0
             THEN 10 * stats[1].max_price ELSE 11 * h[1].price_per_night]

\* baseCityMin, baseCityAvg, baseCityMax, in tenths of a rupee (x || y)
BaseCityPrices(stats, h) ==
    [min |-> IF stats # <<>> /\ stats[1].min_price # 0
             THEN 10 * stats[1].min_price ELSE 8 * h[1].price_per_night,
     avg |-> IF stats # <<>> /\ stats[1].avg_price # 0
             THEN 10 * stats[1].avg_price ELSE 10 * h[1].price_per_night,
     max |-> IF stats # <<>> /\ stats[1].max_price # 0
             THEN 10 * stats[1].max_price ELSE 15 * h[1].price_per_night]

\* AdjustedPrices that rounds the minimum up (Math.ceil) and the rest to nearest
AdjustedPricesCeilMin(base, mult) ==
    [min |-> (base.min * mult + 999) \div 1000,
     avg |-> Round(base.avg * mult, 1000),
     max |-> Round(base.max * mult, 1000)]

\* adjustedMin, adjustedAvg, adjustedMax: Math.round(base * demandMultiplier)
AdjustedPrices(base, mult) ==
    [min |-> Round(base.min * mult, 1000),
     avg |-> Round(base.avg * mult, 1000),
     max |-> Round(base.max * mult, 1000)]

\* The payload sent to the AI, lines 346-381
Payload(rq, h, stats, dem) ==
    LET base == BaseCityPrices(stats, h)
        adj  == AdjustedPrices(base, DemandMultiplier(dem, rq))
    IN  [hotel |-> [hotel_name |-> h[1].hotel_name, city |-> h[1].city,
                    rating |-> h[1].rating, reviews |-> h[1].number_of_reviews],
         base_city_prices |-> [min_price |-> base.min, avg_price |-> base.avg,
                               max_price |-> base.max],
         hotel_base_price |-> [price_per_night |-> h[1].price_per_night],
         stay_details |-> [check_in |-> rq.check_in, check_out |-> rq.check_out,
                           nights |-> Nights(rq), guests |-> rq.guests],
         demand_context |-> [is_peak_month |-> IsPeakMonth(dem, rq),
                             event_active |-> EventActive(dem, rq),
                             event_name |-> EventName(dem, rq)],
         user_budget |-> [min |-> rq.budget_min, max |-> rq.budget_max],
         calculated_range |-> [min |-> adj.min, max |-> adj.max]]

---------------------------------------------------------------------------
(* What the AI provider can answer to the fetch of getPriceInsightFromGemini.*)
(* The text of the first candidate is a sequence of tokens: "{" and "}",   *)
(* "p" for a stretch of prose or markdown without braces, "null", and the  *)
(* name of a member list (the text between the braces of a flat object).   *)

Object(min, max, label, confidence, explanation) ==
    [recommended_min_price |-> min, recommended_max_price |-> max,
     fairness_label |-> label, confidence_score |-> confidence,
     explanation |-> explanation]

\* The object a member list denotes
Members(b) ==
    CASE b = "fair"     -> Object(Num(4500), Num(5500), Str("fair"), Num(100), Str("Near the city average."))
      [] b = "cheap"    -> Object(Num(3000), Num(3000), Str("cheap"), Num(0), Str("Below the city average."))
      [] b = "inverted" -> Object(Num(9000), Num(5000), Str("expensive"), Num(80), Str("Above the city average."))
      [] b = "label"    -> Object(Num(4500), Num(5500), Str("reasonable"), Num(85), Str("Near the city average."))
      [] b = "over"     -> Object(Num(4500), Num(5500), Str("fair"), Num(101), Str("Near the city average."))
      [] b = "under"    -> Object(Num(4500), Num(5500), Str("fair"), Num(-1), Str("Near the city average."))
      [] b = "strmin"   -> Object(Str("4500"), Num(5500), Str("fair"), Num(85), Str("Near the city average."))
      [] b = "nomax"    -> Object(Num(4500), Undefined, Str("fair"), Num(85), Str("Near the city average."))
      [] b = "mute"     -> Object(Num(4500), Num(5500), Str("fair"), Num(85), Str(""))
      [] OTHER          -> Object(Undefined, Undefined, Undefined, Undefined, Undefined)

MemberLists ==
    {"fair", "cheap", "inverted", "label", "over", "under", "strmin", "nomax", "mute"}

GeminiTexts ==
    {<<"{", b, "}">> : b \in MemberLists}
      \cup { <<"p", "{", "fair", "}", "p">>, <<"p">>, <<"null">>, <<>> }

Answer(kind, status, errorText, json, text) ==
    [kind |-> kind, status |-> status, errorText |-> errorText, json |-> json, text |-> text]

NoAnswer == Answer("none", 0, "", FALSE, <<>>)

\* fetch() rejects; a non-2xx status; a 2xx body that is not JSON; a 2xx JSON
\* body whose first candidate has the text t (<<>>: no candidate text, or "")
GeminiAnswers ==
    { Answer("network_error", 0, "", FALSE, <<>>),
      Answer("http", 429, "quota exceeded", FALSE, <<>>),
      Answer("http", 503, "RATE_LIMIT: overloaded", FALSE, <<>>),
      Answer("http", 200, "", FALSE, <<>>) }
      \cup { Answer("http", 200, "", TRUE, t) : t \in GeminiTexts }

\* The answers of the pricing runs: a valid object alone, prose alone, the
\* object inside prose, and the object before or after prose that has braces
PricingAnswers ==
    { Answer("http", 200, "", TRUE, t) :
        t \in { <<"{", "fair", "}">>,
                <<"p">>,
                <<"p", "{", "fair", "}", "p">>,
                <<"{", "fair", "}", "p", "{", "p", "}", "p">>,
                <<"p", "{", "p", "}", "p", "{", "fair", "}">> } }

\* A pricing run: one request drawn from the pricing stays and answers
PricingWorkload ==
    [requests |-> 1, bodies |-> PricingStays, answers |-> PricingAnswers]

\* A run is either several requests drawn from two stays and three answers, or
\* fewer requests drawn from every stay and every answer.
Workloads ==
    { [requests |-> MaxRequests,
       bodies |-> { Stay("h1", "Jaipur", 20251020, 20251023),
                    Stay("h1", "Jaipur", 20250910, 20251023) },
       answers |-> { Answer("http", 429, "quota exceeded", FALSE, <<>>),
                     Answer("http", 200, "", TRUE, <<"{", "fair", "}">>),
                     Answer("http", 200, "", TRUE, <<"p">>) }],
      [requests |-> MaxSoloRequests, bodies |-> StayRequests, answers |-> GeminiAnswers] }

---------------------------------------------------------------------------
(* getPriceInsightFromGemini, lines 62-211 *)

NoObject == Object(Undefined, Undefined, Undefined, Undefined, Undefined)

\* JSON.parse(text): an object, null, or a SyntaxError
JSONParse(text) ==
    IF Len(text) = 3 /\ text[1] = "{" /\ text[2] \in MemberLists /\ text[3] = "}"
    THEN [ok |-> TRUE, isNull |-> FALSE, object |-> Members(text[2])]
    ELSE IF text = <<"null">>
    THEN [ok |-> TRUE, isNull |-> TRUE, object |-> NoObject]
    ELSE [ok |-> FALSE, isNull |-> FALSE, object |-> NoObject]

\* content.match(/\{[\s\S]*\}/): from the first "{" to the last "}" after it;
\* <<>> when there is no match
JsonMatch(content) ==
    LET opens == {i \in 1..Len(content) : content[i] = "{"}
        first == CHOOSE i \in opens : \A j \in opens : i <= j
        closes == {i \in 1..Len(content) : content[i] = "}" /\ i > first}
        last == CHOOSE i \in closes : \A j \in closes : i >= j
    IN  IF opens = {} THEN <<>>
        ELSE IF closes = {} THEN <<>>
        ELSE SubSeq(content, first, last)

\* Lines 157-167: aiResponse, or a throw inside the try
ParseContent(content) ==
    IF JSONParse(content).ok THEN JSONParse(content)
    ELSE IF JsonMatch(content) = <<>> THEN [ok |-> FALSE, isNull |-> FALSE, object |-> NoObject]
    ELSE JSONParse(JsonMatch(content))

\* ValidStructure without the upper bound on confidence_score
ValidStructureNoUpper(o) ==
    /\ o.recommended_min_price.t = "number"
    /\ o.recommended_max_price.t = "number"
    /\ o.fairness_label.t = "string"
    /\ o.fairness_label.s \in {"cheap", "fair", "expensive"}
    /\ o.confidence_score.t = "number"
    /\ o.confidence_score.n >= 0
    /\ ~Falsy(o.explanation)

\* Lines 169-180, negated: the response passes the structure check
ValidStructure(o) ==
    /\ o.recommended_min_price.t = "number"
    /\ o.recommended_max_price.t = "number"
    /\ o.fairness_label.t = "string"
    /\ o.fairness_label.s \in {"cheap", "fair", "expensive"}
    /\ o.confidence_score.t = "number"
    /\ o.confidence_score.n >= 0
    /\ o.confidence_score.n <= 100
    /\ ~Falsy(o.explanation)

\* The try block, lines 147-182, returns (does not throw)
TryReturns(content) ==
    /\ content # <<>>
    /\ ParseContent(content).ok
    /\ ~ParseContent(content).isNull
    /\ ValidStructure(ParseContent(content).object)

\* Fallback whose test for 'expensive' is >= instead of >
FallbackInclusive(payload) ==
    LET min == payload.calculated_range.min
        max == payload.calculated_range.max
        cityAvg == payload.base_city_prices.avg_price
        fairness == IF 100 * (min + max) < 16 * cityAvg THEN "cheap"
                    ELSE IF 100 * (min + max) >= 26 * cityAvg THEN "expensive"
                    ELSE "fair"
    IN  Object(Num(Round(min, 1)), Num(Round(max, 1)), Str(fairness), Num(60),
               Str("Price recommendation based on demand analysis. "
                   \o (IF payload.demand_context.is_peak_month
                       THEN "Peak season pricing applies. " ELSE "")
                   \o (IF payload.demand_context.event_active
                       THEN payload.demand_context.event_name[1]
                            \o " is happening during your dates. "
                       ELSE "")
                   \o "This is a calculated estimate."))

\* Fallback that recommends the base range of the city, not the adjusted one
FallbackFromBase(payload) ==
    LET min == payload.calculated_range.min
        max == payload.calculated_range.max
        cityAvg == payload.base_city_prices.avg_price
        fairness == IF 100 * (min + max) < 16 * cityAvg THEN "cheap"
                    ELSE IF 100 * (min + max) > 26 * cityAvg THEN "expensive"
                    ELSE "fair"
    IN  Object(Num(Round(payload.base_city_prices.min_price, 10)),
               Num(Round(payload.base_city_prices.max_price, 10)),
               Str(fairness), Num(60),
               Str("Price recommendation based on demand analysis. "
                   \o (IF payload.demand_context.is_peak_month
                       THEN "Peak season pricing applies. " ELSE "")
                   \o (IF payload.demand_context.event_active
                       THEN payload.demand_context.event_name[1]
                            \o " is happening during your dates. "
                       ELSE "")
                   \o "This is a calculated estimate."))

\* The catch block, lines 183-210
Fallback(payload) ==
    LET min == payload.calculated_range.min
        max == payload.calculated_range.max
        cityAvg == payload.base_city_prices.avg_price
        \* avgRecommended < cityAvg * 0.8, avgRecommended > cityAvg * 1.3
        fairness == IF 100 * (min + max) < 16 * cityAvg THEN "cheap"
                    ELSE IF 100 * (min + max) > 26 * cityAvg THEN "expensive"
                    ELSE "fair"
    IN  Object(Num(Round(min, 1)), Num(Round(max, 1)), Str(fairness), Num(60),
               Str("Price recommendation based on demand analysis. "
                   \o (IF payload.demand_context.is_peak_month
                       THEN "Peak season pricing applies. " ELSE "")
                   \o (IF payload.demand_context.event_active
                       THEN payload.demand_context.event_name[1]
                            \o " is happening during your dates. "
                       ELSE "")
                   \o "This is a calculated estimate."))

Return(v) == [threw |-> FALSE, message |-> "", value |-> v]
Throw(m) == [threw |-> TRUE, message |-> m, value |-> NoObject]

RateLimitMessage ==
    "RATE_LIMIT: Our AI service is currently busy. Please wait a minute and try again."

\* getPriceInsightFromGemini that clamps the AI's prices into the calculated
\* range before it returns them
getPriceInsightFromGeminiClamping(payload, answer) ==
    LET Clamp(v) == IF v.n < payload.calculated_range.min
                    THEN Num(payload.calculated_range.min)
                    ELSE IF v.n > payload.calculated_range.max
                    THEN Num(payload.calculated_range.max)
                    ELSE v
        o == ParseContent(answer.text).object
    IN  IF answer.kind = "network_error"
        THEN Throw("error sending request")
        ELSE IF ~(answer.status >= 200 /\ answer.status <= 299)
        THEN IF answer.status = 429
             THEN Throw(RateLimitMessage)
             ELSE Throw("Gemini API returned " \o ToString(answer.status) \o ": "
                        \o SubSeq(answer.errorText, 1,
                                  IF Len(answer.errorText) < 200
                                  THEN Len(answer.errorText) ELSE 200))
        ELSE IF ~answer.json
        THEN Throw("Unexpected token in JSON")
        ELSE IF TryReturns(answer.text)
        THEN Return([o EXCEPT !.recommended_min_price = Clamp(@),
                              !.recommended_max_price = Clamp(@)])
        ELSE Return(Fallback(payload))

\* getPriceInsightFromGemini with the fetch and the status check inside the
\* try block: every failure but the 429 ends in the catch block's fallback
getPriceInsightFromGeminiCatchingAll(payload, answer) ==
    IF answer.kind = "network_error"
    THEN Return(Fallback(payload))
    ELSE IF ~(answer.status >= 200 /\ answer.status <= 299)
    THEN IF answer.status = 429
         THEN Throw(RateLimitMessage)
         ELSE Return(Fallback(payload))
    ELSE IF ~answer.json
    THEN Return(Fallback(payload))
    ELSE IF TryReturns(answer.text)
    THEN Return(ParseContent(answer.text).object)
    ELSE Return(Fallback(payload))

getPriceInsightFromGemini(payload, answer) ==
    IF answer.kind = "network_error"
    THEN Throw("error sending request")
    ELSE IF ~(answer.status >= 200 /\ answer.status <= 299)
    THEN IF answer.status = 429
         THEN Throw(RateLimitMessage)
         ELSE Throw("Gemini API returned " \o ToString(answer.status) \o ": "
                    \o SubSeq(answer.errorText, 1,
                              IF Len(answer.errorText) < 200
                              THEN Len(answer.errorText) ELSE 200))
    ELSE IF ~answer.json
    THEN Throw("Unexpected token in JSON")
    ELSE IF TryReturns(answer.text)
    THEN Return(ParseContent(answer.text).object)
    ELSE Return(Fallback(payload))

---------------------------------------------------------------------------
(* The handler's queries and responses *)

SameKey(row, rq) ==
    /\ row.hotel_id = rq.hotel_id
    /\ row.city = rq.city
    /\ row.check_in = rq.check_in
    /\ row.check_out = rq.check_out

\* CacheQuery without its created_at filter: a query that never expires a row
CacheQueryAnyAge(rows, rq, expiry) ==
    {i \in 1..Len(rows) : SameKey(rows[i], rq)}

\* Lines 232-239: the rows the cache query selects, as indices into cache
CacheQuery(rows, rq, expiry) ==
    {i \in 1..Len(rows) : SameKey(rows[i], rq) /\ rows[i].created_at >= expiry}

\* Lines 240-242: order by created_at descending, limit 1.  Rows inserted
\* within one tick of the clock are in insertion order.
Latest(rows, S) ==
    CHOOSE i \in S : \A j \in S :
        \/ rows[i].created_at > rows[j].created_at
        \/ rows[i].created_at = rows[j].created_at /\ i >= j

\* PredictionRow without the demand context: the recommendation alone is stored
PredictionRowBare(rq, h, stats, dem, rec, at) ==
    LET mult == DemandMultiplier(dem, rq)
        adj  == AdjustedPrices(BaseCityPrices(stats, h), mult)
    IN  [hotel_id |-> rq.hotel_id, city |-> rq.city,
         check_in |-> rq.check_in, check_out |-> rq.check_out,
         nights |-> Nights(rq),
         calculated_min |-> adj.min, calculated_max |-> adj.max,
         gemini_response |->
             [recommended_min_price |-> rec.recommended_min_price,
              recommended_max_price |-> rec.recommended_max_price,
              fairness_label |-> rec.fairness_label,
              confidence_score |-> rec.confidence_score,
              explanation |-> rec.explanation,
              is_peak_month |-> FALSE,
              event_active |-> FALSE,
              event_name |-> <<>>,
              demand_multiplier |-> 0],
         created_at |-> at]

\* Lines 392-407: the row inserted; created_at is the column's default
PredictionRow(rq, h, stats, dem, rec, at) ==
    LET mult == DemandMultiplier(dem, rq)
        adj  == AdjustedPrices(BaseCityPrices(stats, h), mult)
    IN  [hotel_id |-> rq.hotel_id, city |-> rq.city,
         check_in |-> rq.check_in, check_out |-> rq.check_out,
         nights |-> Nights(rq),
         calculated_min |-> adj.min, calculated_max |-> adj.max,
         gemini_response |->
             [recommended_min_price |-> rec.recommended_min_price,
              recommended_max_price |-> rec.recommended_max_price,
              fairness_label |-> rec.fairness_label,
              confidence_score |-> rec.confidence_score,
              explanation |-> rec.explanation,
              is_peak_month |-> IsPeakMonth(dem, rq),
              event_active |-> EventActive(dem, rq),
              event_name |-> EventName(dem, rq),
              demand_multiplier |-> mult],
         created_at |-> at]

\* Lines 410-433: the response of the fresh path
FreshResponse(rq, h, stats, dem, rec) ==
    LET mult == DemandMultiplier(dem, rq)
        base == BaseCityPrices(stats, h)
        adj  == AdjustedPrices(base, mult)
    IN  [status |-> 200, cached |-> FALSE,
         base_city_prices |-> base,
         adjusted_prices |-> [min |-> adj.min, avg |-> adj.avg, max |-> adj.max,
                              multiplier |-> mult],
         ai_recommendation |-> rec,
         demand_context |-> [is_peak_month |-> IsPeakMonth(dem, rq),
                             event_active |-> EventActive(dem, rq),
                             event_name |-> EventName(dem, rq),
                             demand_multiplier |-> mult]]

\* Lines 245-275: the response built from a cached row
CachedResponse(row) ==
    LET g == row.gemini_response
        demandMultiplier == IF g.demand_multiplier = 0 THEN 100 ELSE g.demand_multiplier
    IN  [status |-> 200, cached |-> TRUE,
         base_city_prices |->
             [min |-> 10 * Round(100 * row.calculated_min, demandMultiplier),
              avg |-> 10 * Round(100 * (row.calculated_min + row.calculated_max),
                                 2 * demandMultiplier),
              max |-> 10 * Round(100 * row.calculated_max, demandMultiplier)],
         adjusted_prices |->
             [min |-> row.calculated_min,
              avg |-> Round(row.calculated_min + row.calculated_max, 2),
              max |-> row.calculated_max,
              multiplier |-> demandMultiplier],
         ai_recommendation |-> g,
         demand_context |->
             [is_peak_month |-> g.is_peak_month,
              event_active |-> g.event_active,
              event_name |-> IF g.event_name = <<"">> THEN <<>> ELSE g.event_name,
              demand_multiplier |-> demandMultiplier]]

\* ErrorResponse testing message.includes('RATE_LIMIT:') instead of startsWith
ErrorResponseIncludes(message, at) ==
    LET p == "RATE_LIMIT:"
        rateLimit == \E i \in 1..(Len(message) - Len(p) + 1) :
                         SubSeq(message, i, i + Len(p) - 1) = p
        errorMessage == IF rateLimit THEN Replace(message, "RATE_LIMIT: ", "") ELSE message
        statusCode == IF rateLimit THEN 429 ELSE 500
    IN  [status |-> statusCode, error |-> errorMessage, code |-> statusCode,
         timestamp |-> at]

\* Lines 434-457: the catch block of the handler
ErrorResponse(message, at) ==
    LET rateLimit == StartsWith(message, "RATE_LIMIT:")
        errorMessage == IF rateLimit THEN Replace(message, "RATE_LIMIT: ", "") ELSE message
        statusCode == IF rateLimit THEN 429 ELSE 500
    IN  [status |-> statusCode, error |-> errorMessage, code |-> statusCode,
         timestamp |-> at]

NoResponse == [status |-> 0]

---------------------------------------------------------------------------
(* src/lib/demand.ts: the weighted-score demand model of the client        *)
(* library.  A nullable argument is <<>> (null) or <<value>>; dates are    *)
(* numbers YYYYMMDD; the score and its weights are in hundredths.  The     *)
(* month of a date is taken as in a time zone at or east of UTC, where     *)
(* new Date("YYYY-MM-DD").getMonth() is the month written in the string.   *)

Lower(c) ==
    CASE c = "A" -> "a" [] c = "B" -> "b" [] c = "C" -> "c" [] c = "D" -> "d"
      [] c = "E" -> "e" [] c = "F" -> "f" [] c = "G" -> "g" [] c = "H" -> "h"
      [] c = "I" -> "i" [] c = "J" -> "j" [] c = "K" -> "k" [] c = "L" -> "l"
      [] c = "M" -> "m" [] c = "N" -> "n" [] c = "O" -> "o" [] c = "P" -> "p"
      [] c = "Q" -> "q" [] c = "R" -> "r" [] c = "S" -> "s" [] c = "T" -> "t"
      [] c = "U" -> "u" [] c = "V" -> "v" [] c = "W" -> "w" [] c = "X" -> "x"
      [] c = "Y" -> "y" [] c = "Z" -> "z" [] OTHER -> c

\* s.toLowerCase()
RECURSIVE toLowerCase(_)
toLowerCase(s) ==
    IF s = "" THEN "" ELSE Lower(Char(s, 1)) \o toLowerCase(SubSeq(s, 2, Len(s)))

\* s.includes(sub)
Includes(s, sub) ==
    \E i \in 1..(Len(s) - Len(sub) + 1) : SubSeq(s, i, i + Len(sub) - 1) = sub

\* getEventImpact that tests the medium keywords first
getEventImpactMediumFirst(eventName) ==
    LET name == toLowerCase(eventName)
    IN  IF Includes(name, "festival") \/ Includes(name, "jayanti") \/ Includes(name, "puja")
        THEN "medium"
        ELSE IF Includes(name, "kumbh") \/ Includes(name, "diwali")
                  \/ Includes(name, "new year")
        THEN "very_high"
        ELSE IF Includes(name, "wedding") \/ Includes(name, "durga puja")
                  \/ Includes(name, "navratri")
        THEN "high"
        ELSE "low"

\* getEventImpact, lines 42-62
getEventImpact(eventName) ==
    LET name == toLowerCase(eventName)
    IN  IF Includes(name, "kumbh") \/ Includes(name, "diwali") \/ Includes(name, "new year")
        THEN "very_high"
        ELSE IF Includes(name, "wedding") \/ Includes(name, "durga puja")
                  \/ Includes(name, "navratri")
        THEN "high"
        ELSE IF Includes(name, "festival") \/ Includes(name, "jayanti")
                  \/ Includes(name, "puja")
        THEN "medium"
        ELSE "low"

\* The EventInfo pushed for a part that matches, lines 29-35
EventInfo(match) ==
    [name |-> Trim(match[1].name), start |-> match[1].start, end |-> match[1].end,
     impact |-> getEventImpact(Trim(match[1].name))]

\* parseEvents that gives up at the first part that does not match
parseEventsStoppingAtMalformed(eventsStr) ==
    IF eventsStr = <<>> \/ eventsStr[1] = "" THEN <<>>
    ELSE LET parts      == Split(eventsStr[1], ";")
             eventParts == [i \in 1..Len(parts) |-> Trim(parts[i])]
             bad        == {i \in 1..Len(eventParts) : EventMatch(eventParts[i]) = <<>>}
             upTo       == IF bad = {} THEN Len(eventParts)
                           ELSE (CHOOSE k \in bad : \A j \in bad : k <= j) - 1
         IN  [i \in 1..upTo |-> EventInfo(EventMatch(eventParts[i]))]

\* parseEvents, lines 20-40
parseEvents(eventsStr) ==
    IF eventsStr = <<>> \/ eventsStr[1] = "" THEN <<>>
    ELSE LET parts      == Split(eventsStr[1], ";")
             eventParts == [i \in 1..Len(parts) |-> Trim(parts[i])]
             matching   == SelectSeq(eventParts, LAMBDA eventStr : EventMatch(eventStr) # <<>>)
         IN  [i \in 1..Len(matching) |-> EventInfo(EventMatch(matching[i]))]

\* The digits of s as a number
RECURSIVE DigitsValue(_)
DigitsValue(s) ==
    IF s = "" THEN 0
    ELSE 10 * DigitsValue(SubSeq(s, 1, Len(s) - 1)) + DigitValue(Char(s, Len(s)))

\* NaN, which equals no month
NaN == 0 - 1

\* parseInt(s) of an unsigned text: the number its leading digits write
ParseInt(s) ==
    LET stop == {i \in 1..Len(s) : ~IsDigit(Char(s, i))}
        n    == IF stop = {} THEN Len(s) ELSE (CHOOSE k \in stop : \A j \in stop : k <= j) - 1
    IN  IF n = 0 THEN NaN ELSE DigitsValue(SubSeq(s, 1, n))

\* isDateInRange of utils, part_007 lines 34-39
isDateInRange(date, start, end) == date >= start /\ date <= end

\* The filter of lines 79-83 that looks at the check-in date alone
OverlapsCheckInOnly(event, checkIn, checkOut) ==
    isDateInRange(checkIn, event.start, event.end)

\* The filter of lines 79-83
Overlaps(event, checkIn, checkOut) ==
    \/ isDateInRange(checkIn, event.start, event.end)
    \/ isDateInRange(checkOut, event.start, event.end)
    \/ (checkIn <= event.start /\ checkOut >= event.end)

\* impactScore, lines 95-100
ImpactScore(impact) ==
    CASE impact = "low" -> 10 [] impact = "medium" -> 20
      [] impact = "high" -> 30 [] impact = "very_high" -> 40

\* The loop of lines 94-102
RECURSIVE AddImpactScores(_, _)
AddImpactScores(demandScore, overlappingEvents) ==
    IF overlappingEvents = <<>> THEN demandScore
    ELSE AddImpactScores(demandScore + ImpactScore(overlappingEvents[1].impact),
                         Tail(overlappingEvents))

\* calculateDemandContext without the cap of line 105
calculateDemandContextUncapped(cityDemandArg, checkIn, checkOut) ==
    LET peakText == IF cityDemandArg = <<>> THEN <<>> ELSE cityDemandArg[1].peak_months
        peakParts == IF peakText = <<>> \/ peakText[1] = "" THEN <<>>
                     ELSE Split(peakText[1], ",")
        peakMonths == [i \in 1..Len(peakParts) |-> ParseInt(Trim(peakParts[i]))]
        isPeakMonth == \E i \in 1..Len(peakMonths) : peakMonths[i] = Month(checkIn)
        allEvents == parseEvents(IF cityDemandArg = <<>> THEN <<>> ELSE cityDemandArg[1].events)
        overlappingEvents ==
            SelectSeq(allEvents, LAMBDA event : Overlaps(event, checkIn, checkOut))
    IN  [is_peak_month |-> isPeakMonth,
         peak_months |-> IF peakText = <<>> \/ peakText[1] = "" THEN <<>> ELSE peakText,
         events |-> overlappingEvents,
         demand_score |-> AddImpactScores(IF isPeakMonth THEN 30 ELSE 0, overlappingEvents)]

\* calculateDemandContext, lines 64-113
calculateDemandContext(cityDemandArg, checkIn, checkOut) ==
    LET peakText == IF cityDemandArg = <<>> THEN <<>> ELSE cityDemandArg[1].peak_months
        peakParts == IF peakText = <<>> \/ peakText[1] = "" THEN <<>>
                     ELSE Split(peakText[1], ",")
        peakMonths == [i \in 1..Len(peakParts) |-> ParseInt(Trim(peakParts[i]))]
        isPeakMonth == \E i \in 1..Len(peakMonths) : peakMonths[i] = Month(checkIn)
        allEvents == parseEvents(IF cityDemandArg = <<>> THEN <<>> ELSE cityDemandArg[1].events)
        overlappingEvents ==
            SelectSeq(allEvents, LAMBDA event : Overlaps(event, checkIn, checkOut))
        demandScore == AddImpactScores(IF isPeakMonth THEN 30 ELSE 0, overlappingEvents)
    IN  [is_peak_month |-> isPeakMonth,
         peak_months |-> IF peakText = <<>> \/ peakText[1] = "" THEN <<>> ELSE peakText,
         events |-> overlappingEvents,
         demand_score |-> IF demandScore < 100 THEN demandScore ELSE 100]

\* The events strings the library and the handler's loop are run on
EventStrings ==
    { "Diwali Festival (2025-10-18~2025-10-22); Pushkar Fair 2025-11-01;Durga Puja (2025-09-28~2025-10-02) ; Wedding Season (2025-11-10-2025-11-20); (2025-12-01~2025-12-05);NEW YEAR Gala  (2025-12-28~2025-12-31) bookings open",
      "Teej Festival (2025-10-20~2025-10-21);Local Mela (2025-10-19~2025-10-25);Gandhi Jayanti (2025-10-02~2025-10-02);Kumbh Mela (2025-10-10~2025-10-30);Navratri (2025-10-15~2025-10-24)",
      "Trade Fair (2025/10/18~2025/10/22);Ganesh Puja (2025-10-18~2025-10-2);Dasara(2025-09-20~2025-10-02)",
      "Harvest Fair (2025-10-18 ~ 2025-10-22);;Rath Yatra [2025-10-18~2025-10-22]; Ganesh Puja (2025-10-21~2025-10-23)",
      "" }

\* The arguments parseEvents is called with
EventsArguments == {<<>>} \cup {<<e>> : e \in EventStrings}

\* The city_demand rows calculateDemandContext is called with
CityDemandArguments ==
    {<<>>} \cup { <<[peak_months |-> pm, events |-> ev]>> :
                    pm \in {<<>>, <<"10, 11,12">>, <<"9">>}, ev \in EventsArguments }

\* The stays: check-in and check-out dates
StayDates ==
    { <<20251020, 20251021>>, <<20251015, 20251018>>, <<20251022, 20251025>>,
      <<20251016, 20251017>>, <<20251026, 20251028>>, <<20251015, 20251025>>,
      <<20250925, 20250927>>, <<20251001, 20251003>>, <<20251203, 20251204>>,
      <<20251101, 20251105>>, <<20250927, 20251003>> }

NoParseCall == [made |-> FALSE, eventsStr |-> <<>>]

NoDemandCall == [made |-> FALSE, cityDemand |-> <<>>, checkIn |-> 0, checkOut |-> 0]

NoDemandContext ==
    [is_peak_month |-> FALSE, peak_months |-> <<>>, events |-> <<>>, demand_score |-> 0]

NoHandlerLoop ==
    [made |-> FALSE, events |-> "", check_in |-> 0, eventActive |-> FALSE,
     eventName |-> <<>>]

\* Nothing of the client library has run
LibIdle ==
    /\ parseCall = NoParseCall
    /\ parsedEvents = <<>>
    /\ demandCall = NoDemandCall
    /\ demandContext = NoDemandContext
    /\ handlerLoop = NoHandlerLoop

---------------------------------------------------------------------------
(* The price insight panel (src/unnamed/part_005).  Date.now() is held as   *)
(* milliseconds; MountTime stands for its value when the panel is mounted,  *)
(* a number of some 10^12 of which only "at least DEBOUNCE_MS" matters.     *)
(* Dates are the strings of the date inputs, "" when an input is empty.     *)

MountTime == 1000000
ElapseMs == 1000

\* getDefaultDates() of the search store, on some day
defaultDates == [checkIn |-> "2025-10-18", checkOut |-> "2025-10-20"]

\* What a date input can hold: nothing, or the date it had
DateInputs(field) == {"", defaultDates[field]}

\* What functions.invoke('predict-price') can resolve to: { data, error }
FreshData == [cached |-> FALSE, recommended_min_price |-> 5000]

CachedData == [cached |-> TRUE, recommended_min_price |-> 5750]

\* A FunctionsHttpError: the response's status and its body text
HttpError(status, json, bodyError, bodyCode, text) ==
    [http |-> TRUE, message |-> "Edge Function returned a non-2xx status code",
     status |-> status, json |-> json, bodyError |-> bodyError, bodyCode |-> bodyCode,
     text |-> text]

\* A FunctionsFetchError or FunctionsRelayError: no response to read
OtherError(message) ==
    [http |-> FALSE, message |-> message, status |-> 0, json |-> FALSE,
     bodyError |-> "", bodyCode |-> 0, text |-> ""]

InvokeErrors ==
    { HttpError(429, TRUE, "Our AI service is currently busy.", 429, "{}"),
      HttpError(500, TRUE, "Hotel not found", 500, "{}"),
      HttpError(500, TRUE, "", 429, "{}"),
      HttpError(429, FALSE, "", 0, "Too Many Requests"),
      HttpError(502, FALSE, "", 0, ""),
      OtherError("Failed to send a request to the Edge Function") }

InvokeOutcomes ==
    { [data |-> <<d>>, error |-> <<>>] : d \in {FreshData, CachedData} }
        \cup { [data |-> <<>>, error |-> <<e>>] : e \in InvokeErrors }

\* Lines 90-117: the message of the Error thrown for a returned error
ThrownMessage(error) ==
    LET errorMessage ==
            IF ~error.http THEN error.message
            ELSE IF error.json
                 THEN IF error.bodyError # "" THEN error.bodyError ELSE error.message
                 ELSE IF error.text # "" THEN error.text ELSE error.message
        isRateLimit ==
            /\ error.http
            /\ \/ error.status = 429
               \/ error.json /\ error.bodyCode = 429
    IN  IF isRateLimit
        THEN "AI_BUSY: Our AI service is currently busy. Please try again in 1-2 minutes."
        ELSE errorMessage

\* Lines 133-139: the title of the toast of the catch block
FailureTitle(message) ==
    IF StartsWith(message, "AI_BUSY:") THEN "AI Service Busy" ELSE "Prediction Failed"

\* Lines 123-124: the title of the toast of a resolved prediction
SuccessTitle(data) ==
    IF data.cached THEN "Cached Insights Retrieved" ELSE "Smart Insights Generated"

\* Lines 187 and 391: the button shown can be clicked
ButtonEnabled ==
    IF prediction = <<>>
    THEN ~(loading \/ filters.checkIn = "" \/ filters.checkOut = "")
    ELSE ~loading

\* The panel as mounted: lines 45-49
PanelMounted ==
    /\ filters = defaultDates
    /\ loading = FALSE
    /\ prediction = <<>>
    /\ lastRequestTime = 0
    /\ dateNow = MountTime
    /\ invocation = <<>>
    /\ invoked = <<>>
    /\ toast = ""

\* Nothing outside the predict-price function has run
ClientIdle == LibIdle /\ PanelMounted

---------------------------------------------------------------------------
(* The state machine *)

\* price_predictions outlives the function: it starts empty, or with the two
\* rows that earlier requests for one stay have left, a day apart.
InitialCaches ==
    LET rq  == Stay("h1", "Jaipur", 20251020, 20251023)
        h   == hotels_india(rq.hotel_id)
        st  == city_price_stats(rq.city)
        dem == city_demand(rq.city)
    IN  { <<>>,
          << PredictionRow(rq, h, st, dem, Members("fair"), 0 - CACHE_DURATION_HOURS),
             PredictionRow(rq, h, st, dem, Fallback(Payload(rq, h, st, dem)), 0) >> }

Init ==
    /\ now = 0
    /\ cache \in InitialCaches
    /\ geminiApiKey \in {<<>>, <<"key">>}
    /\ workload \in Workloads
    /\ issued = 0
    /\ pc = [r \in Reqs |-> "idle"]
    /\ req = [r \in Reqs |-> NoRequest]
    /\ cacheExpiryTime = [r \in Reqs |-> 0]
    /\ cachedPrediction = [r \in Reqs |-> <<>>]
    /\ hotel = [r \in Reqs |-> <<>>]
    /\ cityStats = [r \in Reqs |-> <<>>]
    /\ cityDemand = [r \in Reqs |-> <<>>]
    /\ geminiAnswer = [r \in Reqs |-> NoAnswer]
    /\ aiRecommendation = [r \in Reqs |-> NoObject]
    /\ response = [r \in Reqs |-> NoResponse]
    /\ log = [r \in Reqs |-> <<>>]
    /\ completedBefore = [r \in Reqs |-> {}]
    /\ stored = [r \in Reqs |-> <<>>]
    /\ ClientIdle

\* Time passes
Tick ==
    /\ now + TickHours <= MaxTime
    /\ now' = now + TickHours
    /\ UNCHANGED <<completedBefore, stored>>
    /\ UNCHANGED <<cache, geminiApiKey, workload, issued, pc, req, cacheExpiryTime,
                   cachedPrediction, hotel, cityStats, cityDemand, geminiAnswer,
                   aiRecommendation, response, log>>
    /\ UNCHANGED clientVars

\* Lines 219-242: a request arrives, its body parses, the cache query is sent
Receive(r, body) ==
    /\ pc[r] = "idle"
    /\ r = issued + 1
    /\ r <= workload.requests
    /\ body \in workload.bodies
    /\ issued' = r
    /\ completedBefore' = [completedBefore EXCEPT ![r] = {q \in Reqs : pc[q] = "done"}]
    /\ UNCHANGED stored
    /\ req' = [req EXCEPT ![r] = body]
    /\ cacheExpiryTime' = [cacheExpiryTime EXCEPT ![r] = now - CACHE_DURATION_HOURS]
    /\ pc' = [pc EXCEPT ![r] = "cacheCheck"]
    /\ UNCHANGED <<now, cache, geminiApiKey, workload, cachedPrediction, hotel, cityStats,
                   cityDemand, geminiAnswer, aiRecommendation, response, log>>
    /\ UNCHANGED clientVars

\* Line 219 throws: the body of the request is not JSON
ReceiveMalformed(r) ==
    /\ pc[r] = "idle"
    /\ r = issued + 1
    /\ r <= workload.requests
    /\ issued' = r
    /\ completedBefore' = [completedBefore EXCEPT ![r] = {q \in Reqs : pc[q] = "done"}]
    /\ UNCHANGED stored
    /\ response' = [response EXCEPT ![r] = ErrorResponse("Unexpected end of JSON input", now)]
    /\ log' = [log EXCEPT ![r] = Append(@, "respond")]
    /\ pc' = [pc EXCEPT ![r] = "done"]
    /\ UNCHANGED <<now, cache, geminiApiKey, workload, req, cacheExpiryTime, cachedPrediction,
                   hotel, cityStats, cityDemand, geminiAnswer, aiRecommendation>>
    /\ UNCHANGED clientVars

\* CacheHit that also writes the row it served back as a new row
CacheHitRefreshing(r) ==
    /\ pc[r] = "cacheCheck"
    /\ CacheQuery(cache, req[r], cacheExpiryTime[r]) # {}
    /\ LET row == cache[Latest(cache, CacheQuery(cache, req[r], cacheExpiryTime[r]))]
       IN  /\ cachedPrediction' = [cachedPrediction EXCEPT ![r] = <<row>>]
           /\ response' = [response EXCEPT ![r] = CachedResponse(row)]
           /\ cache' = Append(cache, [row EXCEPT !.created_at = now])
    /\ cacheExpiryTime' = [cacheExpiryTime EXCEPT ![r] = 0]
    /\ log' = [log EXCEPT ![r] = @ \o <<"select price_predictions", "respond">>]
    /\ pc' = [pc EXCEPT ![r] = "done"]
    /\ UNCHANGED <<completedBefore, stored>>
    /\ UNCHANGED <<now, geminiApiKey, workload, issued, req, hotel,
                   cityStats, cityDemand, geminiAnswer, aiRecommendation>>
    /\ UNCHANGED clientVars

\* Lines 232-275: the cache query returns a row, the handler answers from it
CacheHit(r) ==
    /\ pc[r] = "cacheCheck"
    /\ CacheQuery(cache, req[r], cacheExpiryTime[r]) # {}
    /\ LET row == cache[Latest(cache, CacheQuery(cache, req[r], cacheExpiryTime[r]))]
       IN  /\ cachedPrediction' = [cachedPrediction EXCEPT ![r] = <<row>>]
           /\ response' = [response EXCEPT ![r] = CachedResponse(row)]
    /\ cacheExpiryTime' = [cacheExpiryTime EXCEPT ![r] = 0]
    /\ log' = [log EXCEPT ![r] = @ \o <<"select price_predictions", "respond">>]
    /\ pc' = [pc EXCEPT ![r] = "done"]
    /\ UNCHANGED <<completedBefore, stored>>
    /\ UNCHANGED <<now, cache, geminiApiKey, workload, issued, req, hotel,
                   cityStats, cityDemand, geminiAnswer, aiRecommendation>>
    /\ UNCHANGED clientVars

\* CacheMiss that goes on to the fresh path whatever the cache query returned
CacheMissAlways(r) ==
    /\ pc[r] = "cacheCheck"
    /\ cacheExpiryTime' = [cacheExpiryTime EXCEPT ![r] = 0]
    /\ log' = [log EXCEPT ![r] = Append(@, "select price_predictions")]
    /\ pc' = [pc EXCEPT ![r] = "fetchHotel"]
    /\ UNCHANGED <<completedBefore, stored>>
    /\ UNCHANGED <<now, cache, geminiApiKey, workload, issued, req,
                   cachedPrediction, hotel, cityStats, cityDemand, geminiAnswer,
                   aiRecommendation, response>>
    /\ UNCHANGED clientVars

\* Lines 232-245, 278-285: the cache query returns no row, the hotel query is sent
CacheMiss(r) ==
    /\ pc[r] = "cacheCheck"
    /\ CacheQuery(cache, req[r], cacheExpiryTime[r]) = {}
    /\ cacheExpiryTime' = [cacheExpiryTime EXCEPT ![r] = 0]
    /\ log' = [log EXCEPT ![r] = Append(@, "select price_predictions")]
    /\ pc' = [pc EXCEPT ![r] = "fetchHotel"]
    /\ UNCHANGED <<completedBefore, stored>>
    /\ UNCHANGED <<now, cache, geminiApiKey, workload, issued, req,
                   cachedPrediction, hotel, cityStats, cityDemand, geminiAnswer,
                   aiRecommendation, response>>
    /\ UNCHANGED clientVars

\* FetchHotel that takes a default hotel when the requested one has no row
FetchHotelDefault(r) ==
    /\ pc[r] = "fetchHotel"
    /\ hotel' = [hotel EXCEPT ![r] = IF hotels_india(req[r].hotel_id) = <<>>
                                     THEN hotels_india("h1")
                                     ELSE hotels_india(req[r].hotel_id)]
    /\ log' = [log EXCEPT ![r] = Append(@, "select hotels_india")]
    /\ pc' = [pc EXCEPT ![r] = "fetchStats"]
    /\ UNCHANGED <<completedBefore, stored>>
    /\ UNCHANGED <<now, cache, geminiApiKey, workload, issued, req, cacheExpiryTime,
                   cachedPrediction, cityStats, cityDemand, geminiAnswer,
                   aiRecommendation, response>>
    /\ UNCHANGED clientVars

\* Lines 281-285
FetchHotel(r) ==
    /\ pc[r] = "fetchHotel"
    /\ hotel' = [hotel EXCEPT ![r] = hotels_india(req[r].hotel_id)]
    /\ log' = [log EXCEPT ![r] = Append(@, "select hotels_india")]
    /\ pc' = [pc EXCEPT ![r] = "fetchStats"]
    /\ UNCHANGED <<completedBefore, stored>>
    /\ UNCHANGED <<now, cache, geminiApiKey, workload, issued, req, cacheExpiryTime,
                   cachedPrediction, cityStats, cityDemand, geminiAnswer,
                   aiRecommendation, response>>
    /\ UNCHANGED clientVars

\* Lines 288-292
FetchCityStats(r) ==
    /\ pc[r] = "fetchStats"
    /\ cityStats' = [cityStats EXCEPT ![r] = city_price_stats(req[r].city)]
    /\ log' = [log EXCEPT ![r] = Append(@, "select city_price_stats")]
    /\ pc' = [pc EXCEPT ![r] = "fetchDemand"]
    /\ UNCHANGED <<completedBefore, stored>>
    /\ UNCHANGED <<now, cache, geminiApiKey, workload, issued, req, cacheExpiryTime,
                   cachedPrediction, hotel, cityDemand, geminiAnswer,
                   aiRecommendation, response>>
    /\ UNCHANGED clientVars

\* FetchCityDemand without the test of the API key
FetchCityDemandNoKeyCheck(r) ==
    /\ pc[r] = "fetchDemand"
    /\ cityDemand' = [cityDemand EXCEPT ![r] = city_demand(req[r].city)]
    /\ IF hotel[r] = <<>>
       THEN /\ response' = [response EXCEPT ![r] =
                   ErrorResponse(
                       IF cityStats[r] = <<>> \/ cityStats[r][1].min_price = 0
                       THEN "Cannot read properties of null (reading 'price_per_night')"
                       ELSE "Cannot read properties of null (reading 'hotel_name')",
                       now)]
            /\ log' = [log EXCEPT ![r] = @ \o <<"select city_demand", "respond">>]
            /\ pc' = [pc EXCEPT ![r] = "done"]
       ELSE /\ response' = response
            /\ log' = [log EXCEPT ![r] = Append(@, "select city_demand")]
            /\ pc' = [pc EXCEPT ![r] = "callGemini"]
    /\ UNCHANGED <<completedBefore, stored>>
    /\ UNCHANGED <<now, cache, geminiApiKey, workload, issued, req, cacheExpiryTime,
                   cachedPrediction, hotel, cityStats, geminiAnswer, aiRecommendation>>
    /\ UNCHANGED clientVars

\* Lines 295-387: the demand row arrives; the handler computes the demand
\* context and the price range, builds the payload (which reads the fields of
\* hotel and throws a TypeError when hotel is null) and reads the API key
FetchCityDemand(r) ==
    /\ pc[r] = "fetchDemand"
    /\ cityDemand' = [cityDemand EXCEPT ![r] = city_demand(req[r].city)]
    /\ IF hotel[r] = <<>>
       THEN /\ response' = [response EXCEPT ![r] =
                   ErrorResponse(
                       IF cityStats[r] = <<>> \/ cityStats[r][1].min_price = 0
                       THEN "Cannot read properties of null (reading 'price_per_night')"
                       ELSE "Cannot read properties of null (reading 'hotel_name')",
                       now)]
            /\ log' = [log EXCEPT ![r] = @ \o <<"select city_demand", "respond">>]
            /\ pc' = [pc EXCEPT ![r] = "done"]
       ELSE IF geminiApiKey = <<>>
       THEN /\ response' = [response EXCEPT ![r] =
                   ErrorResponse("Gemini API key not configured", now)]
            /\ log' = [log EXCEPT ![r] = @ \o <<"select city_demand", "respond">>]
            /\ pc' = [pc EXCEPT ![r] = "done"]
       ELSE /\ response' = response
            /\ log' = [log EXCEPT ![r] = Append(@, "select city_demand")]
            /\ pc' = [pc EXCEPT ![r] = "callGemini"]
    /\ UNCHANGED <<completedBefore, stored>>
    /\ UNCHANGED <<now, cache, geminiApiKey, workload, issued, req, cacheExpiryTime,
                   cachedPrediction, hotel, cityStats, geminiAnswer, aiRecommendation>>
    /\ UNCHANGED clientVars

\* CallGemini that calls the AI provider again when the call has thrown
CallGeminiRetrying(r, answer) ==
    /\ pc[r] = "callGemini"
    /\ answer \in workload.answers
    /\ geminiAnswer' = [geminiAnswer EXCEPT ![r] = answer]
    /\ LET result == getPriceInsightFromGemini(
                         Payload(req[r], hotel[r], cityStats[r], cityDemand[r]), answer)
       IN  IF result.threw
           THEN /\ log' = [log EXCEPT ![r] = Append(@, "fetch gemini")]
                /\ UNCHANGED <<pc, response, aiRecommendation>>
           ELSE /\ aiRecommendation' = [aiRecommendation EXCEPT ![r] = result.value]
                /\ log' = [log EXCEPT ![r] = Append(@, "fetch gemini")]
                /\ pc' = [pc EXCEPT ![r] = "persist"]
                /\ UNCHANGED response
    /\ UNCHANGED <<completedBefore, stored>>
    /\ UNCHANGED <<now, cache, geminiApiKey, workload, issued, req, cacheExpiryTime,
                   cachedPrediction, hotel, cityStats, cityDemand>>
    /\ UNCHANGED clientVars

\* CallGemini that also writes a row for a call that has thrown
CallGeminiStoringOnError(r, answer) ==
    /\ pc[r] = "callGemini"
    /\ answer \in workload.answers
    /\ geminiAnswer' = [geminiAnswer EXCEPT ![r] = answer]
    /\ LET payload == Payload(req[r], hotel[r], cityStats[r], cityDemand[r])
           result  == getPriceInsightFromGemini(payload, answer)
       IN  IF result.threw
           THEN /\ response' = [response EXCEPT ![r] = ErrorResponse(result.message, now)]
                /\ cache' = Append(cache, PredictionRow(req[r], hotel[r], cityStats[r],
                                                        cityDemand[r], Fallback(payload), now))
                /\ log' = [log EXCEPT ![r] = @ \o <<"fetch gemini", "respond">>]
                /\ pc' = [pc EXCEPT ![r] = "done"]
                /\ UNCHANGED aiRecommendation
           ELSE /\ aiRecommendation' = [aiRecommendation EXCEPT ![r] = result.value]
                /\ log' = [log EXCEPT ![r] = Append(@, "fetch gemini")]
                /\ pc' = [pc EXCEPT ![r] = "persist"]
                /\ UNCHANGED <<response, cache>>
    /\ UNCHANGED <<completedBefore, stored>>
    /\ UNCHANGED <<now, geminiApiKey, workload, issued, req, cacheExpiryTime,
                   cachedPrediction, hotel, cityStats, cityDemand>>
    /\ UNCHANGED clientVars

\* Line 389: the AI provider answers and getPriceInsightFromGemini returns a
\* recommendation or throws into the handler's catch block
CallGemini(r, answer) ==
    /\ pc[r] = "callGemini"
    /\ answer \in workload.answers
    /\ geminiAnswer' = [geminiAnswer EXCEPT ![r] = answer]
    /\ LET result == getPriceInsightFromGemini(
                         Payload(req[r], hotel[r], cityStats[r], cityDemand[r]), answer)
       IN  IF result.threw
           THEN /\ response' = [response EXCEPT ![r] = ErrorResponse(result.message, now)]
                /\ log' = [log EXCEPT ![r] = @ \o <<"fetch gemini", "respond">>]
                /\ pc' = [pc EXCEPT ![r] = "done"]
                /\ UNCHANGED aiRecommendation
           ELSE /\ aiRecommendation' = [aiRecommendation EXCEPT ![r] = result.value]
                /\ log' = [log EXCEPT ![r] = Append(@, "fetch gemini")]
                /\ pc' = [pc EXCEPT ![r] = "persist"]
                /\ UNCHANGED response
    /\ UNCHANGED <<completedBefore, stored>>
    /\ UNCHANGED <<now, cache, geminiApiKey, workload, issued, req, cacheExpiryTime,
                   cachedPrediction, hotel, cityStats, cityDemand>>
    /\ UNCHANGED clientVars

\* StorePrediction as an upsert: the new row replaces the rows of its key
StorePredictionUpsert(r) ==
    /\ pc[r] = "persist"
    /\ cache' = Append(SelectSeq(cache, LAMBDA row : ~SameKey(row, req[r])),
                       PredictionRow(req[r], hotel[r], cityStats[r], cityDemand[r],
                                     aiRecommendation[r], now))
    /\ response' = [response EXCEPT ![r] =
            FreshResponse(req[r], hotel[r], cityStats[r], cityDemand[r], aiRecommendation[r])]
    /\ log' = [log EXCEPT ![r] = @ \o <<"insert price_predictions", "respond">>]
    /\ pc' = [pc EXCEPT ![r] = "done"]
    /\ stored' = [stored EXCEPT ![r] = <<PredictionRow(req[r], hotel[r], cityStats[r], cityDemand[r],
                                                       aiRecommendation[r], now)>>]
    /\ UNCHANGED completedBefore
    /\ UNCHANGED <<now, geminiApiKey, workload, issued, req, cacheExpiryTime, cachedPrediction,
                   hotel, cityStats, cityDemand, geminiAnswer, aiRecommendation>>
    /\ UNCHANGED clientVars

\* Lines 392-433: the insert succeeds, the handler answers
StorePrediction(r) ==
    /\ pc[r] = "persist"
    /\ cache' = Append(cache, PredictionRow(req[r], hotel[r], cityStats[r], cityDemand[r],
                                            aiRecommendation[r], now))
    /\ response' = [response EXCEPT ![r] =
            FreshResponse(req[r], hotel[r], cityStats[r], cityDemand[r], aiRecommendation[r])]
    /\ log' = [log EXCEPT ![r] = @ \o <<"insert price_predictions", "respond">>]
    /\ pc' = [pc EXCEPT ![r] = "done"]
    /\ stored' = [stored EXCEPT ![r] = <<PredictionRow(req[r], hotel[r], cityStats[r], cityDemand[r],
                                                       aiRecommendation[r], now)>>]
    /\ UNCHANGED completedBefore
    /\ UNCHANGED <<now, geminiApiKey, workload, issued, req, cacheExpiryTime, cachedPrediction,
                   hotel, cityStats, cityDemand, geminiAnswer, aiRecommendation>>
    /\ UNCHANGED clientVars

\* StorePredictionFails that fails the request when the insert fails
StorePredictionFailsThrowing(r) ==
    /\ pc[r] = "persist"
    /\ response' = [response EXCEPT ![r] = ErrorResponse("insert failed", now)]
    /\ log' = [log EXCEPT ![r] = @ \o <<"insert price_predictions", "respond">>]
    /\ pc' = [pc EXCEPT ![r] = "done"]
    /\ UNCHANGED <<completedBefore, stored>>
    /\ UNCHANGED <<now, cache, geminiApiKey, workload, issued, req, cacheExpiryTime,
                   cachedPrediction, hotel, cityStats, cityDemand, geminiAnswer,
                   aiRecommendation>>
    /\ UNCHANGED clientVars

\* Lines 392-433: the insert fails; its error is not read, the handler answers
StorePredictionFails(r) ==
    /\ pc[r] = "persist"
    /\ response' = [response EXCEPT ![r] =
            FreshResponse(req[r], hotel[r], cityStats[r], cityDemand[r], aiRecommendation[r])]
    /\ log' = [log EXCEPT ![r] = @ \o <<"insert price_predictions", "respond">>]
    /\ pc' = [pc EXCEPT ![r] = "done"]
    /\ UNCHANGED <<completedBefore, stored>>
    /\ UNCHANGED <<now, cache, geminiApiKey, workload, issued, req, cacheExpiryTime,
                   cachedPrediction, hotel, cityStats, cityDemand, geminiAnswer,
                   aiRecommendation>>
    /\ UNCHANGED clientVars

Next ==
    \/ Tick
    \/ \E r \in Reqs : \E body \in StayRequests : Receive(r, body)
    \/ \E r \in Reqs : ReceiveMalformed(r)
    \/ \E r \in Reqs : CacheHit(r)
    \/ \E r \in Reqs : CacheMiss(r)
    \/ \E r \in Reqs : FetchHotel(r)
    \/ \E r \in Reqs : FetchCityStats(r)
    \/ \E r \in Reqs : FetchCityDemand(r)
    \/ \E r \in Reqs : \E answer \in GeminiAnswers : CallGemini(r, answer)
    \/ \E r \in Reqs : StorePrediction(r)
    \/ \E r \in Reqs : StorePredictionFails(r)

Spec == Init /\ [][Next]_vars

\* The pricing runs: the function starts with an empty price_predictions and
\* the API key set, and serves one request of the pricing workload.
PricingInit ==
    /\ now = 0
    /\ cache = <<>>
    /\ geminiApiKey = <<"key">>
    /\ workload = PricingWorkload
    /\ issued = 0
    /\ pc = [r \in Reqs |-> "idle"]
    /\ req = [r \in Reqs |-> NoRequest]
    /\ cacheExpiryTime = [r \in Reqs |-> 0]
    /\ cachedPrediction = [r \in Reqs |-> <<>>]
    /\ hotel = [r \in Reqs |-> <<>>]
    /\ cityStats = [r \in Reqs |-> <<>>]
    /\ cityDemand = [r \in Reqs |-> <<>>]
    /\ geminiAnswer = [r \in Reqs |-> NoAnswer]
    /\ aiRecommendation = [r \in Reqs |-> NoObject]
    /\ response = [r \in Reqs |-> NoResponse]
    /\ log = [r \in Reqs |-> <<>>]
    /\ completedBefore = [r \in Reqs |-> {}]
    /\ stored = [r \in Reqs |-> <<>>]
    /\ ClientIdle

PricingNext ==
    \/ \E r \in Reqs : \E body \in PricingStays : Receive(r, body)
    \/ \E r \in Reqs : CacheMiss(r)
    \/ \E r \in Reqs : FetchHotel(r)
    \/ \E r \in Reqs : FetchCityStats(r)
    \/ \E r \in Reqs : FetchCityDemand(r)
    \/ \E r \in Reqs : \E answer \in PricingAnswers : CallGemini(r, answer)
    \/ \E r \in Reqs : StorePrediction(r)
    \/ \E r \in Reqs : StorePredictionFails(r)

PricingSpec == PricingInit /\ [][PricingNext]_vars

---------------------------------------------------------------------------
(* The client library and the handler's events loop, each called once on   *)
(* one of many inputs.                                                      *)

\* parseEvents(eventsStr) is called
ParseEventsCalled(eventsStr) ==
    /\ LibIdle
    /\ parseCall' = [made |-> TRUE, eventsStr |-> eventsStr]
    /\ parsedEvents' = parseEvents(eventsStr)
    /\ UNCHANGED <<demandCall, demandContext, handlerLoop>>
    /\ UNCHANGED <<handlerVars, panelVars>>

\* calculateDemandContext(cityDemand, checkIn, checkOut) is called
CalculateDemandContextCalled(cityDemandArg, checkIn, checkOut) ==
    /\ LibIdle
    /\ demandCall' = [made |-> TRUE, cityDemand |-> cityDemandArg,
                      checkIn |-> checkIn, checkOut |-> checkOut]
    /\ demandContext' = calculateDemandContext(cityDemandArg, checkIn, checkOut)
    /\ UNCHANGED <<parseCall, parsedEvents, handlerLoop>>
    /\ UNCHANGED <<handlerVars, panelVars>>

\* Lines 310-328 of the handler run on an events string and a check-in date
HandlerLoopRuns(eventsText, check_in) ==
    /\ LibIdle
    /\ LET dem == <<[peak_months |-> <<>>, events |-> HandlerEvents(eventsText)]>>
           rq  == Stay("h1", "Jaipur", check_in, check_in)
       IN  handlerLoop' = [made |-> TRUE, events |-> eventsText, check_in |-> check_in,
                           eventActive |-> EventActive(dem, rq),
                           eventName |-> EventName(dem, rq)]
    /\ UNCHANGED <<parseCall, parsedEvents, demandCall, demandContext>>
    /\ UNCHANGED <<handlerVars, panelVars>>

DemandNext ==
    \/ \E eventsStr \in EventsArguments : ParseEventsCalled(eventsStr)
    \/ \E cityDemandArg \in CityDemandArguments : \E d \in StayDates :
           CalculateDemandContextCalled(cityDemandArg, d[1], d[2])
    \/ \E eventsText \in EventStrings : \E d \in StayDates : HandlerLoopRuns(eventsText, d[1])

DemandSpec == PricingInit /\ [][DemandNext]_vars

---------------------------------------------------------------------------
(* The price insight panel: its button, the promise it awaits, the date     *)
(* inputs of the search form, and the passing of time.                      *)

\* setFilters({ checkIn }) or setFilters({ checkOut }) of the search store
SetFilters(field, value) ==
    /\ filters[field] # value
    /\ filters' = [filters EXCEPT ![field] = value]
    /\ UNCHANGED <<loading, prediction, lastRequestTime, dateNow, invocation, invoked, toast>>
    /\ UNCHANGED <<handlerVars, libVars>>

\* Time passes
Elapse ==
    /\ dateNow - MountTime < MaxElapsed
    /\ dateNow' = dateNow + ElapseMs
    /\ UNCHANGED <<filters, loading, prediction, lastRequestTime, invocation, invoked, toast>>
    /\ UNCHANGED <<handlerVars, libVars>>

\* handleGetPrediction without its debounce check
handleGetPredictionUndebounced ==
    /\ ButtonEnabled
    /\ IF filters.checkIn = "" \/ filters.checkOut = ""
       THEN /\ toast' = ("Missing dates")
            /\ UNCHANGED <<loading, lastRequestTime, invocation, invoked>>
       ELSE /\ lastRequestTime' = dateNow
            /\ loading' = TRUE
            /\ invocation' = <<[check_in |-> filters.checkIn, check_out |-> filters.checkOut]>>
            /\ invoked' = Append(invoked, [at |-> dateNow, check_in |-> filters.checkIn,
                                           check_out |-> filters.checkOut])
            /\ UNCHANGED toast
    /\ UNCHANGED <<filters, prediction, dateNow>>
    /\ UNCHANGED <<handlerVars, libVars>>

\* A click on the button shown: handleGetPrediction up to its await, lines 52-87
handleGetPrediction ==
    /\ ButtonEnabled
    /\ IF filters.checkIn = "" \/ filters.checkOut = ""
       THEN /\ toast' = ("Missing dates")
            /\ UNCHANGED <<loading, lastRequestTime, invocation, invoked>>
       ELSE IF dateNow - lastRequestTime < DEBOUNCE_MS
       THEN /\ toast' = ("Please wait")
            /\ UNCHANGED <<loading, lastRequestTime, invocation, invoked>>
       ELSE /\ lastRequestTime' = dateNow
            /\ loading' = TRUE
            /\ invocation' = <<[check_in |-> filters.checkIn, check_out |-> filters.checkOut]>>
            /\ invoked' = Append(invoked, [at |-> dateNow, check_in |-> filters.checkIn,
                                           check_out |-> filters.checkOut])
            /\ UNCHANGED toast
    /\ UNCHANGED <<filters, prediction, dateNow>>
    /\ UNCHANGED <<handlerVars, libVars>>

\* The awaited invoke resolves: handleGetPrediction from line 89 to its end
InvokeResolves(outcome) ==
    /\ invocation # <<>>
    /\ invocation' = <<>>
    /\ IF outcome.error # <<>>
       THEN /\ toast' = (FailureTitle(ThrownMessage(outcome.error[1])))
            /\ UNCHANGED prediction
       ELSE /\ prediction' = outcome.data
            /\ toast' = (SuccessTitle(outcome.data[1]))
    /\ loading' = FALSE
    /\ UNCHANGED <<filters, lastRequestTime, dateNow, invoked>>
    /\ UNCHANGED <<handlerVars, libVars>>

PanelNext ==
    \/ \E field \in {"checkIn", "checkOut"} : \E value \in DateInputs(field) : SetFilters(field, value)
    \/ Elapse
    \/ handleGetPrediction
    \/ \E outcome \in InvokeOutcomes : InvokeResolves(outcome)

PanelSpec == PricingInit /\ [][PanelNext]_vars

---------------------------------------------------------------------------
(* Properties.  The readings below are written from the statements, not    *)
(* from the handler's own operators.                                       *)

\* The row is for the stay the request names
ForSameStay(row, rq) ==
    /\ row.hotel_id = rq.hotel_id
    /\ row.city = rq.city
    /\ row.check_in = rq.check_in
    /\ row.check_out = rq.check_out

\* The five fields of a recommendation
RecommendationOf(x) ==
    [recommended_min_price |-> x.recommended_min_price,
     recommended_max_price |-> x.recommended_max_price,
     fairness_label |-> x.fairness_label,
     confidence_score |-> x.confidence_score,
     explanation |-> x.explanation]

Answered(r) == pc[r] = "done"
Succeeded(r) == pc[r] = "done" /\ response[r].status = 200
ServedFromCache(r) == Succeeded(r) /\ response[r].cached
ServedFresh(r) == Succeeded(r) /\ ~response[r].cached

\* How often the request made a call
Calls(r, what) == Cardinality({i \in 1..Len(log[r]) : log[r][i] = what})

\* C1: a request whose cache query finds a row of its stay inside the
\* freshness window is answered cached=true by that one step, having read no
\* hotel, city-stats or city-demand row and called no AI provider, and the
\* step leaves price_predictions as it was.
C1_CacheHitTouchesNothing ==
    [][\A r \in Reqs :
         (/\ pc[r] = "cacheCheck"
          /\ pc'[r] # "cacheCheck"
          /\ \E i \in 1..Len(cache) :
                 ForSameStay(cache[i], req[r]) /\ cache[i].created_at >= cacheExpiryTime[r])
         => /\ pc'[r] = "done"
            /\ response'[r].status = 200
            /\ response'[r].cached
            /\ log'[r] = <<"select price_predictions", "respond">>
            /\ hotel'[r] = <<>> /\ cityStats'[r] = <<>> /\ cityDemand'[r] = <<>>
            /\ geminiAnswer'[r] = NoAnswer
            /\ cache' = cache]_vars

\* C1 happens: some request has been answered from the cache
C1_Witness == \E r \in Reqs : ServedFromCache(r)

\* The row a request stored, or the row it was served
UsedRow(r) == IF response[r].cached THEN cachedPrediction[r] ELSE stored[r]

C3_ServesLatestFreshRowOfKey ==
    [][\A r \in Reqs :
         /\ (pc[r] = "idle" /\ pc'[r] = "cacheCheck")
              => cacheExpiryTime'[r] = now - 24
         /\ cachedPrediction'[r] # cachedPrediction[r]
              => /\ pc[r] = "cacheCheck"
                 /\ Len(cachedPrediction'[r]) = 1
                 /\ \E i \in 1..Len(cache) :
                        /\ cache[i] = cachedPrediction'[r][1]
                        /\ ForSameStay(cache[i], req[r])
                        /\ cache[i].created_at >= cacheExpiryTime[r]
                        /\ \A j \in 1..Len(cache) :
                               (/\ ForSameStay(cache[j], req[r])
                                /\ cache[j].created_at >= cacheExpiryTime[r])
                               => cache[j].created_at <= cache[i].created_at
                 /\ response'[r].status = 200
                 /\ response'[r].ai_recommendation = cachedPrediction'[r][1].gemini_response]_vars

\* C3 happens: a request was served the newer of two rows of its stay while
\* the table also held a row of another stay
C3_Witness ==
    \E r \in Reqs :
        /\ ServedFromCache(r)
        /\ \E i, j, k \in 1..Len(cache) :
               /\ cache[i] = cachedPrediction[r][1]
               /\ ForSameStay(cache[j], req[r])
               /\ cache[j].created_at < cache[i].created_at
               /\ ~ForSameStay(cache[k], req[r])

\* C4 as stated: every request answered with a fresh recommendation has
\* added a row of its own to the table.
C4_FreshAnswerStoredOneRow ==
    \A r \in Reqs :
        ServedFresh(r)
        => /\ stored[r] # <<>>
           /\ \E i \in 1..Len(cache) : cache[i] = stored[r][1]

\* C4, amended: a request answered with a fresh recommendation has issued
\* exactly one insert, and no other request issues any; each step leaves
\* price_predictions as it was or appends one row, the row of a request that
\* was at its insert, keeping every earlier row in place and unchanged.
C4_OneInsertAppendOnly ==
    [][/\ \A r \in Reqs :
            /\ (pc'[r] = "done" /\ response'[r].status = 200 /\ ~response'[r].cached)
                 => Calls(r, "insert price_predictions")' = 1
            /\ (pc'[r] = "done" /\ ~(response'[r].status = 200 /\ ~response'[r].cached))
                 => Calls(r, "insert price_predictions")' = 0
       /\ \/ cache' = cache
          \/ /\ Len(cache') = Len(cache) + 1
             /\ SubSeq(cache', 1, Len(cache)) = cache
             /\ \E r \in Reqs :
                    /\ pc[r] = "persist"
                    /\ pc'[r] = "done"
                    /\ ForSameStay(cache'[Len(cache')], req[r])
                    /\ RecommendationOf(cache'[Len(cache')].gemini_response)
                         = RecommendationOf(aiRecommendation[r])
                    /\ cache'[Len(cache')].created_at = now]_vars

\* C4 happens: a fresh answer whose row was appended behind earlier rows
C4_Witness ==
    \E r \in Reqs :
        /\ ServedFresh(r)
        /\ stored[r] # <<>>
        /\ Len(cache) >= 2
        /\ cache[Len(cache)] = stored[r][1]

\* The calls of a request that misses the cache and is answered fresh, in order
FreshPathCalls ==
    <<"select price_predictions", "select hotels_india", "select city_price_stats",
      "select city_demand", "fetch gemini", "insert price_predictions">>

\* The calls a request has made so far, without its response
CallsMade(r) == SelectSeq(log[r], LAMBDA c : c # "respond")

\* C5: after every step, the calls a request has made are an initial part of
\* the sequence cache lookup, hotel read, city-stats read, city-demand read, AI
\* call, cache write, each made once (so the three reads precede the AI call,
\* which is made at most once); a cache write has been made only by a request
\* whose AI step returned a recommendation; a request is answered once, as its
\* last act, with 200 (Respond) or with 429 or 500 (Fail), a fresh 200 only
\* after the cache write; an answered request does nothing more.
C5_LinearSequenceOneTerminal ==
    [][\A r \in Reqs :
         /\ Len(CallsMade(r)') <= Len(FreshPathCalls)
         /\ CallsMade(r)' = SubSeq(FreshPathCalls, 1, Len(CallsMade(r)'))
         /\ Calls(r, "fetch gemini")' <= 1
         /\ Calls(r, "insert price_predictions")' = 1
              => /\ aiRecommendation'[r] # NoObject
                 /\ geminiAnswer'[r].kind = "http"
                 /\ geminiAnswer'[r].status = 200
         /\ pc'[r] # "done"
              => /\ Calls(r, "respond")' = 0
                 /\ response'[r] = NoResponse
         /\ pc'[r] = "done"
              => /\ Calls(r, "respond")' = 1
                 /\ log'[r][Len(log'[r])] = "respond"
                 /\ response'[r].status \in {200, 429, 500}
                 /\ (response'[r].status = 200 /\ ~response'[r].cached)
                      => CallsMade(r)' = FreshPathCalls
         /\ pc[r] = "done"
              => /\ pc'[r] = "done"
                 /\ response'[r] = response[r]
                 /\ log'[r] = log[r]]_vars

\* C5 happens: a request that missed the cache made all six calls and was
\* answered, and another was failed after its AI call
C5_Witness ==
    \E r1, r2 \in Reqs :
        /\ Answered(r1) /\ CallsMade(r1) = FreshPathCalls
        /\ Answered(r2) /\ response[r2].status # 200
        /\ Calls(r2, "fetch gemini") = 1

\* C6: a failed request is answered with a body of exactly error, code and
\* timestamp, the code being the HTTP status; the status is 429 and the error
\* the service-busy message exactly when the AI provider answered 429, and 500
\* otherwise.
C6_ErrorBodyAndStatus ==
    \A r \in Reqs :
        (Answered(r) /\ response[r].status # 200)
        => /\ DOMAIN response[r] = {"status", "error", "code", "timestamp"}
           /\ response[r].code = response[r].status
           /\ response[r].status \in {429, 500}
           /\ response[r].status = 429
                <=> (geminiAnswer[r].kind = "http" /\ geminiAnswer[r].status = 429)
           /\ response[r].status = 429
                => response[r].error
                     = "Our AI service is currently busy. Please wait a minute and try again."
           /\ response[r].status = 500
                => /\ response[r].error # ""
                   /\ response[r].error
                        # "Our AI service is currently busy. Please wait a minute and try again."

\* C6 happens: one request was failed with 429 and another with 500
C6_Witness ==
    \E r1, r2 \in Reqs :
        /\ Answered(r1) /\ response[r1].status = 429
        /\ Answered(r2) /\ response[r2].status = 500

\* The AI call of the request failed: the fetch was rejected, or the provider
\* answered with a status outside 200..299 other than 429
AiCallFailed(r) ==
    \/ geminiAnswer[r].kind = "network_error"
    \/ /\ geminiAnswer[r].kind = "http"
       /\ ~(geminiAnswer[r].status \in 200..299)
       /\ geminiAnswer[r].status # 429

\* The recommendation is the deterministic one for the response that carries
\* it: the adjusted range, with confidence 0.6 and one of the three labels
IsFallbackFor(rec, resp) ==
    /\ rec.recommended_min_price = Num(resp.adjusted_prices.min)
    /\ rec.recommended_max_price = Num(resp.adjusted_prices.max)
    /\ rec.confidence_score = Num(60)
    /\ rec.fairness_label \in {Str("cheap"), Str("fair"), Str("expensive")}
    /\ StartsWith(rec.explanation.s, "Price recommendation based on demand analysis. ")

Denoted(text) ==
    { Members(text[i + 1]) :
        i \in {k \in 1..(Len(text) - 2) :
                 text[k] = "{" /\ text[k + 1] \in MemberLists /\ text[k + 2] = "}"} }

\* A field of the object breaks the constraint the recommendation puts on it
FieldInvalid(o) ==
    \/ o.recommended_min_price.t # "number"
    \/ o.recommended_max_price.t # "number"
    \/ o.fairness_label \notin {Str("cheap"), Str("fair"), Str("expensive")}
    \/ o.confidence_score.t # "number"
    \/ o.confidence_score.n < 0
    \/ o.confidence_score.n > 100
    \/ o.explanation.t # "string"
    \/ o.explanation.s = ""

\* The provider answered 2xx with a body that is not JSON, or without text,
\* or with a text that holds no JSON, or with JSON that is no object (null)
\* or an object one of whose fields is invalid
MalformedAnswer(a) ==
    /\ a.kind = "http"
    /\ a.status \in 200..299
    /\ \/ ~a.json
       \/ a.text = <<>>
       \/ a.text # <<"null">> /\ Denoted(a.text) = {}
       \/ a.text = <<"null">>
       \/ \E o \in Denoted(a.text) : FieldInvalid(o)

\* C8 as stated: a request whose AI provider answered 2xx with a malformed
\* response is answered 200 with the fallback recommendation.
C8_MalformedAnswerGetsFallback ==
    \A r \in Reqs :
        (Answered(r) /\ MalformedAnswer(geminiAnswer[r]))
        => /\ response[r].status = 200
           /\ IsFallbackFor(response[r].ai_recommendation, response[r])

\* C9 as stated: in every recommendation answered to a caller and in every
\* row of price_predictions, recommended_min_price <= recommended_max_price.
C9_MinNeverAboveMax ==
    /\ \A r \in Reqs :
           Succeeded(r)
           => response[r].ai_recommendation.recommended_min_price.n
                <= response[r].ai_recommendation.recommended_max_price.n
    /\ \A i \in 1..Len(cache) :
           cache[i].gemini_response.recommended_min_price.n
             <= cache[i].gemini_response.recommended_max_price.n

\* The confidence is a number within [0, 1] (in hundredths) and the label one
\* of the three
ConfidenceAndLabelValid(rec) ==
    /\ rec.confidence_score.t = "number"
    /\ rec.confidence_score.n >= 0
    /\ rec.confidence_score.n <= 100
    /\ rec.fairness_label \in {Str("cheap"), Str("fair"), Str("expensive")}

\* The AI's object has a confidence outside [0, 1], a label that is not one of
\* the three, or a price that is not a number
ConfidenceLabelOrPriceInvalid(o) ==
    \/ o.confidence_score.t = "number" /\ o.confidence_score.n < 0
    \/ o.confidence_score.t = "number" /\ o.confidence_score.n > 100
    \/ o.fairness_label \notin {Str("cheap"), Str("fair"), Str("expensive")}
    \/ o.recommended_min_price.t # "number"
    \/ o.recommended_max_price.t # "number"

\* C10: every recommendation answered to a caller and every row of
\* price_predictions has a confidence within [0, 1] and one of the three
\* labels; a request whose AI provider answered with an object whose
\* confidence, label or prices are invalid is answered 200 with the fallback
\* recommendation, and the row it stores holds the fallback too.
C10_ConfidenceAndLabelAlwaysValid ==
    /\ \A r \in Reqs :
           Succeeded(r) => ConfidenceAndLabelValid(response[r].ai_recommendation)
    /\ \A i \in 1..Len(cache) : ConfidenceAndLabelValid(cache[i].gemini_response)
    /\ \A r \in Reqs :
           (/\ Answered(r)
            /\ geminiAnswer[r].kind = "http"
            /\ geminiAnswer[r].status \in 200..299
            /\ geminiAnswer[r].json
            /\ \E o \in Denoted(geminiAnswer[r].text) : ConfidenceLabelOrPriceInvalid(o))
           => /\ response[r].status = 200
              /\ IsFallbackFor(response[r].ai_recommendation, response[r])
              /\ stored[r] # <<>>
                   => RecommendationOf(stored[r][1].gemini_response)
                        = RecommendationOf(response[r].ai_recommendation)

\* C10 happens: the AI provider answered with a confidence of 1.01, and the
\* request was answered with the fallback and stored it
C10_Witness ==
    \E r \in Reqs :
        /\ ServedFresh(r)
        /\ geminiAnswer[r].text = <<"{", "over", "}">>
        /\ response[r].ai_recommendation.confidence_score = Num(60)
        /\ stored[r] # <<>>

\* The object satisfies every constraint on the fields of a recommendation
SatisfiesConstraints(o) ==
    /\ ~FieldInvalid(o)
    /\ o.recommended_min_price.n <= o.recommended_max_price.n

\* The AI provider answered 2xx with a text that is one JSON object
AnsweredOneObject(r) ==
    /\ geminiAnswer[r].kind = "http"
    /\ geminiAnswer[r].status \in 200..299
    /\ geminiAnswer[r].json
    /\ Len(geminiAnswer[r].text) = 3
    /\ geminiAnswer[r].text[1] = "{"
    /\ geminiAnswer[r].text[2] \in MemberLists
    /\ geminiAnswer[r].text[3] = "}"

\* C11: when the AI provider's text is a JSON object that satisfies every
\* field constraint, the recommendation the requester returns is that object,
\* value for value, and so are the recommendation answered to the caller and
\* the one in the row the request stores.
C11_ValidObjectReturnedUnchanged ==
    \A r \in Reqs :
        (AnsweredOneObject(r) /\ SatisfiesConstraints(Members(geminiAnswer[r].text[2])))
        => /\ aiRecommendation[r] = Members(geminiAnswer[r].text[2])
           /\ Answered(r)
                => /\ response[r].status = 200
                   /\ RecommendationOf(response[r].ai_recommendation)
                        = Members(geminiAnswer[r].text[2])
           /\ stored[r] # <<>>
                => RecommendationOf(stored[r][1].gemini_response)
                     = Members(geminiAnswer[r].text[2])

\* C11 happens: the AI provider answered with prices below the calculated
\* range and a confidence of 0, and the request was answered and stored a row
C11_Witness ==
    \E r \in Reqs :
        /\ ServedFresh(r)
        /\ stored[r] # <<>>
        /\ geminiAnswer[r].text = <<"{", "cheap", "}">>
        /\ response[r].ai_recommendation.confidence_score = Num(0)
        /\ response[r].ai_recommendation.recommended_max_price.n < response[r].adjusted_prices.min

\* The AI provider answered 2xx with a text that is not JSON itself but has a
\* JSON object that satisfies every field constraint written out in it
AnsweredWrappedObject(r) ==
    /\ geminiAnswer[r].kind = "http"
    /\ geminiAnswer[r].status \in 200..299
    /\ geminiAnswer[r].json
    /\ ~AnsweredOneObject(r)
    /\ \E o \in Denoted(geminiAnswer[r].text) : SatisfiesConstraints(o)

\* C12 as stated: when the AI's text wraps a valid recommendation object in
\* prose, whatever the prose holds, the requester returns that object and the
\* request is answered with it, not with the fallback.
C12_WrappedObjectExtracted ==
    \A r \in Reqs :
        AnsweredWrappedObject(r)
        => /\ aiRecommendation[r] \in Denoted(geminiAnswer[r].text)
           /\ Answered(r)
                => /\ response[r].status = 200
                   /\ RecommendationOf(response[r].ai_recommendation)
                        \in Denoted(geminiAnswer[r].text)

\* The request holds a recommendation that the AI provider did not write:
\* the requester computed it itself
FromFallback(r) ==
    /\ aiRecommendation[r] # NoObject
    /\ aiRecommendation[r] \notin Denoted(geminiAnswer[r].text)

\* The payload the handler built for the request
PayloadOf(r) == Payload(req[r], hotel[r], cityStats[r], cityDemand[r])

\* C13: a recommendation computed by the fallback has the calculated range
\* of its payload as recommended_min_price and recommended_max_price and a
\* confidence of 0.6; the response that carries it shows the same two prices
\* as its adjusted min and max.
C13_FallbackIsCalculatedRange ==
    \A r \in Reqs :
        FromFallback(r)
        => /\ aiRecommendation[r].recommended_min_price
                = Num(PayloadOf(r).calculated_range.min)
           /\ aiRecommendation[r].recommended_max_price
                = Num(PayloadOf(r).calculated_range.max)
           /\ aiRecommendation[r].confidence_score = Num(60)
           /\ Answered(r)
                => /\ response[r].status = 200
                   /\ response[r].ai_recommendation.recommended_min_price
                        = Num(response[r].adjusted_prices.min)
                   /\ response[r].ai_recommendation.recommended_max_price
                        = Num(response[r].adjusted_prices.max)
                   /\ response[r].ai_recommendation.confidence_score = Num(60)

\* C13 happens: a fallback answer under the multiplier 1.5, whose range
\* 6000..11250 is not the base range 4000..7500
C13_Witness ==
    \E r \in Reqs :
        /\ ServedFresh(r)
        /\ FromFallback(r)
        /\ response[r].adjusted_prices.multiplier = 150
        /\ response[r].base_city_prices.min = 40000
        /\ response[r].ai_recommendation.recommended_min_price = Num(6000)
        /\ response[r].ai_recommendation.recommended_max_price = Num(11250)

\* C14: a fallback answer is labelled cheap exactly when the midpoint of its
\* adjusted range is below 0.8 times the city average, expensive exactly when
\* the midpoint is above 1.3 times the average, and fair otherwise, so a
\* midpoint equal to 0.8 or to 1.3 times the average is fair.
C14_FallbackLabelThresholds ==
    \A r \in Reqs :
        (Answered(r) /\ FromFallback(r))
        => LET label == response[r].ai_recommendation.fairness_label
               \* 200 times the midpoint (rupees), and 200 times 0.8 and 1.3
               \* times the city average (the average is in tenths of a rupee)
               mid   == 100 * (response[r].adjusted_prices.min
                                 + response[r].adjusted_prices.max)
               low   == 16 * response[r].base_city_prices.avg
               high  == 26 * response[r].base_city_prices.avg
           IN  /\ label = Str("cheap") <=> mid < low
               /\ label = Str("expensive") <=> mid > high
               /\ label = Str("fair") <=> (mid >= low /\ mid <= high)
               /\ (mid = low \/ mid = high) => label = Str("fair")

\* C14 happens: a fallback answer whose midpoint 4000 is exactly 0.8 times the
\* city average 5000, labelled fair
C14_Witness ==
    \E r \in Reqs :
        /\ Answered(r)
        /\ FromFallback(r)
        /\ response[r].base_city_prices.avg = 50000
        /\ response[r].adjusted_prices.min + response[r].adjusted_prices.max = 8000
        /\ response[r].ai_recommendation.fairness_label = Str("fair")

\* The month of the request's check-in is one of the peak months of the
\* city-demand row the handler read
CheckInInPeakMonth(r) ==
    /\ cityDemand[r] # <<>>
    /\ \E i \in 1..Len(cityDemand[r][1].peak_months) :
           cityDemand[r][1].peak_months[i] = (req[r].check_in \div 100) % 100

\* C15: the multiplier of a fresh answer is 1.0, plus 0.20 when the check-in
\* month is a peak month of the city, plus 0.30 when an event is active; it
\* is one of 1.0, 1.2, 1.3, 1.5, and 1.0 when the city has no demand row.
C15_MultiplierIsBinarySum ==
    \A r \in Reqs :
        ServedFresh(r)
        => LET m == response[r].adjusted_prices.multiplier
               d == response[r].demand_context
           IN  /\ d.demand_multiplier = m
               /\ d.is_peak_month <=> CheckInInPeakMonth(r)
               /\ m = 100 + (IF d.is_peak_month THEN 20 ELSE 0)
                          + (IF d.event_active THEN 30 ELSE 0)
               /\ m \in {100, 120, 130, 150}
               /\ cityDemand[r] = <<>> => m = 100
               /\ stored[r] # <<>> => stored[r][1].gemini_response.demand_multiplier = m

\* C15 happens: a fresh answer in a peak month during an event, multiplier 1.5
C15_Witness ==
    \E r \in Reqs :
        /\ ServedFresh(r)
        /\ response[r].demand_context.is_peak_month
        /\ response[r].demand_context.event_active
        /\ response[r].adjusted_prices.multiplier = 150

\* Some entry of the row's events that matches the pattern has the date
\* between its start and its end, both included
InsideSomeEvent(r, date) ==
    /\ cityDemand[r] # <<>>
    /\ \E i \in 1..Len(cityDemand[r][1].events) :
           /\ cityDemand[r][1].events[i].wellFormed
           /\ cityDemand[r][1].events[i].start <= date
           /\ date <= cityDemand[r][1].events[i].end

\* C16: event_active of a fresh answer is true exactly when the check-in date
\* lies inside some parsed event, its first and last day included; the
\* check-out date plays no part.
C16_EventActiveIffCheckInInside ==
    \A r \in Reqs :
        ServedFresh(r)
        => /\ response[r].demand_context.event_active
                <=> InsideSomeEvent(r, req[r].check_in)
           /\ (InsideSomeEvent(r, req[r].check_out) /\ ~InsideSomeEvent(r, req[r].check_in))
                => ~response[r].demand_context.event_active
           /\ stored[r] # <<>>
                => stored[r][1].gemini_response.event_active
                     = response[r].demand_context.event_active

\* C16 happens: a fresh answer for a check-in on the last day of an event,
\* with the check-out after the event
C16_Witness ==
    \E r \in Reqs :
        /\ ServedFresh(r)
        /\ response[r].demand_context.event_active
        /\ \E i \in 1..Len(cityDemand[r][1].events) :
               /\ cityDemand[r][1].events[i].wellFormed
               /\ cityDemand[r][1].events[i].end = req[r].check_in
        /\ ~InsideSomeEvent(r, req[r].check_out)

\* C17: when the base range of a fresh answer has min <= avg <= max, the three
\* adjusted values, each rounded on its own, have min <= avg <= max, and the
\* multiplier is at least 1.0.
C17_AdjustedRangeKeepsOrder ==
    \A r \in Reqs :
        ServedFresh(r)
        => LET base == response[r].base_city_prices
               adj  == response[r].adjusted_prices
           IN  /\ adj.multiplier >= 100
               /\ (base.min <= base.avg /\ base.avg <= base.max)
                    => (adj.min <= adj.avg /\ adj.avg <= adj.max)

\* C17 happens: a fresh answer with a multiplier above 1.0 whose base minimum
\* and average are equal and whose adjusted values needed rounding
C17_Witness ==
    \E r \in Reqs :
        /\ ServedFresh(r)
        /\ response[r].adjusted_prices.multiplier > 100
        /\ response[r].base_city_prices.min = response[r].base_city_prices.avg
        /\ response[r].base_city_prices.avg < response[r].base_city_prices.max
        /\ (response[r].base_city_prices.min * response[r].adjusted_prices.multiplier) % 1000 # 0

\* C18: a request whose city has no price-stats row still succeeds, and its
\* base range is 0.8, 1.0 and 1.5 times the hotel's nightly price; with a
\* stats row the base range is the row's min, avg and max.
C18_BaseRangeFromStatsOrHotel ==
    \A r \in Reqs :
        (Answered(r) /\ hotels_india(req[r].hotel_id) # <<>>)
        => LET p  == hotels_india(req[r].hotel_id)[1].price_per_night
               st == city_price_stats(req[r].city)
               b  == response[r].base_city_prices
           IN  IF st = <<>>
               THEN /\ response[r].status = 200
                    /\ b.min = 8 * p
                    /\ b.avg = 10 * p
                    /\ b.max = 15 * p
               ELSE ServedFresh(r)
                    => /\ b.min = 10 * st[1].min_price
                       /\ b.avg = 10 * st[1].avg_price
                       /\ b.max = 10 * st[1].max_price

\* C18 happens: a fresh answer for a city without a stats row
C18_Witness ==
    \E r \in Reqs :
        /\ ServedFresh(r)
        /\ cityStats[r] = <<>>
        /\ response[r].base_city_prices.min = 8 * hotel[r][1].price_per_night

\* The request has made the call
HasMade(r, call) == \E i \in 1..Len(log[r]) : log[r][i] = call

\* The four data-store reads of the fresh path, in the order they are made
DataStoreReads ==
    <<"select price_predictions", "select hotels_india", "select city_price_stats",
      "select city_demand">>

\* C19 as stated: without the AI credential every answered request has failed
\* with a 500-class error and has made no data-store read, no AI call and no
\* cache write.
C19_NoCredentialFailsBeforeAnyCall ==
    \A r \in Reqs :
        (geminiApiKey = <<>> /\ Answered(r))
        => /\ response[r].status = 500
           /\ CallsMade(r) = <<>>

\* C19 amended: without the AI credential no request makes the AI call or a
\* cache write; a request that finds its prediction in the cache is answered
\* from it with 200; a request that misses the cache fails with 500 after the
\* cache lookup and the reads of hotel, city stats and city demand, and when
\* its hotel exists the error is the missing-key message.
C19_NoCredentialNoAiCallNoWrite ==
    \A r \in Reqs :
        geminiApiKey = <<>>
        => /\ ~HasMade(r, "fetch gemini")
           /\ ~HasMade(r, "insert price_predictions")
           /\ stored[r] = <<>>
           /\ aiRecommendation[r] = NoObject
           /\ (Answered(r) /\ cachedPrediction[r] # <<>>)
                => /\ response[r].status = 200
                   /\ response[r].cached
                   /\ CallsMade(r) = <<"select price_predictions">>
           /\ (Answered(r) /\ cachedPrediction[r] = <<>>)
                => /\ response[r].status = 500
                   /\ req[r] # NoRequest => CallsMade(r) = DataStoreReads
                   /\ (req[r] # NoRequest /\ hotels_india(req[r].hotel_id) # <<>>)
                        => response[r].error = "Gemini API key not configured"

\* C19 happens: without the credential, a request has missed the cache, made
\* the four reads and failed with the missing-key message
C19_Witness ==
    \E r \in Reqs :
        /\ geminiApiKey = <<>>
        /\ Answered(r)
        /\ CallsMade(r) = DataStoreReads
        /\ response[r].status = 500
        /\ response[r].error = "Gemini API key not configured"

\* C20: a request for a hotel_id without a hotel row that has missed the
\* cache makes no AI call and no cache write, and is answered with 500.
C20_MissingHotelFailsWithoutAiCall ==
    \A r \in Reqs :
        (/\ req[r] # NoRequest
         /\ hotels_india(req[r].hotel_id) = <<>>
         /\ HasMade(r, "select price_predictions")
         /\ cachedPrediction[r] = <<>>)
        => /\ ~HasMade(r, "fetch gemini")
           /\ ~HasMade(r, "insert price_predictions")
           /\ geminiAnswer[r] = NoAnswer
           /\ stored[r] = <<>>
           /\ \A i \in 1..Len(cache) : cache[i].hotel_id # req[r].hotel_id
           /\ Answered(r)
                => /\ response[r].status = 500
                   /\ response[r].code = 500
                   /\ CallsMade(r) = DataStoreReads

\* C20 happens: with the credential configured, a request for a hotel without
\* a row has missed the cache and has been failed with 500
C20_Witness ==
    \E r \in Reqs :
        /\ geminiApiKey # <<>>
        /\ req[r] # NoRequest
        /\ hotels_india(req[r].hotel_id) = <<>>
        /\ cachedPrediction[r] = <<>>
        /\ Answered(r)
        /\ response[r].status = 500
        /\ hotel[r] = <<>>
        /\ HasMade(r, "select hotels_india")

\* C25: a request whose cache write failed is still answered with 200 and
\* cached = false, carrying the recommendation it had computed, and the
\* cache holds no record of it.
C25_FailedCacheWriteStillAnswers ==
    \A r \in Reqs :
        (Answered(r) /\ HasMade(r, "insert price_predictions") /\ stored[r] = <<>>)
        => /\ response[r].status = 200
           /\ ~response[r].cached
           /\ aiRecommendation[r] # NoObject
           /\ response[r].ai_recommendation = aiRecommendation[r]
           /\ CallsMade(r) = FreshPathCalls
           /\ \A i \in 1..Len(cache) : ~ForSameStay(cache[i], req[r])

\* C25 happens: a request made its insert, the insert stored nothing, and the
\* request was answered fresh with its recommendation
C25_Witness ==
    \E r \in Reqs :
        /\ Answered(r)
        /\ HasMade(r, "insert price_predictions")
        /\ stored[r] = <<>>
        /\ cache = <<>>
        /\ response[r].status = 200
        /\ response[r].ai_recommendation.fairness_label = Str("fair")

\* Whole days from check_in to check_out, negative when check_out is earlier
DaysBetween(rq) ==
    (365 * (rq.check_out \div 10000) + DaysBeforeMonth[(rq.check_out \div 100) % 100]
        + (rq.check_out % 100))
    - (365 * (rq.check_in \div 10000) + DaysBeforeMonth[(rq.check_in \div 100) % 100]
        + (rq.check_in % 100))

\* C26: a request whose check_out is not after its check_in is not rejected:
\* it runs the whole fresh path and is answered with 200, and the night count
\* sent to the AI and stored in the cache record is the difference in days,
\* zero or negative.
C26_NonPositiveNightsNotRejected ==
    \A r \in Reqs :
        (Answered(r) /\ req[r] # NoRequest /\ req[r].check_out <= req[r].check_in)
        => /\ response[r].status = 200
           /\ ~response[r].cached
           /\ CallsMade(r) = FreshPathCalls
           /\ PayloadOf(r).stay_details.nights = DaysBetween(req[r])
           /\ PayloadOf(r).stay_details.nights <= 0
           /\ stored[r] # <<>> => stored[r][1].nights = DaysBetween(req[r])

\* C26 happens: a request with check_out three days before check_in was
\* answered with 200 and its record holds nights = -3
C26_Witness ==
    \E r \in Reqs :
        /\ ServedFresh(r)
        /\ req[r].check_out < req[r].check_in
        /\ stored[r] # <<>>
        /\ stored[r][1].nights = 0 - 3
        /\ \E i \in 1..Len(cache) : cache[i] = stored[r][1]

\* The two requests are for one key
SameKeyRequests(r1, r2) ==
    /\ r1 # r2
    /\ req[r1] # NoRequest
    /\ req[r1].hotel_id = req[r2].hotel_id
    /\ req[r1].city = req[r2].city
    /\ req[r1].check_in = req[r2].check_in
    /\ req[r1].check_out = req[r2].check_out

\* C27 as stated: while no time has passed (so everything lies in one
\* freshness window), two requests for one key never both call the AI and
\* never both append a record.
C27_OneAiCallOneRecordPerKey ==
    now = 0
    => \A r1, r2 \in Reqs :
           SameKeyRequests(r1, r2)
           => /\ ~(HasMade(r1, "fetch gemini") /\ HasMade(r2, "fetch gemini"))
              /\ ~(stored[r1] # <<>> /\ stored[r2] # <<>>)

\* C27 amended: a request goes on from its cache lookup to the fresh path
\* only when, at the moment of the lookup, the cache holds no record of its
\* key inside the freshness window, and is answered from the cache otherwise;
\* it calls the AI at most once and only after such a miss.
C27_AiCallOnlyAfterLookupMiss ==
    [][\A r \in Reqs :
           /\ (pc[r] = "cacheCheck" /\ pc'[r] # "cacheCheck")
                => IF \E i \in 1..Len(cache) :
                          /\ ForSameStay(cache[i], req[r])
                          /\ cache[i].created_at >= cacheExpiryTime[r]
                   THEN /\ pc'[r] = "done"
                        /\ response'[r].status = 200
                        /\ response'[r].cached
                   ELSE pc'[r] = "fetchHotel"
           /\ (HasMade(r, "fetch gemini")' /\ ~HasMade(r, "fetch gemini"))
                => /\ CallsMade(r) = DataStoreReads
                   /\ cachedPrediction[r] = <<>>
           /\ Calls(r, "fetch gemini")' <= 1
           /\ Calls(r, "insert price_predictions")' <= 1]_vars

\* C27 happens: of two requests for one key, the first called the AI and
\* stored its record, the second arrived after it and was answered from that
\* record without an AI call
C27_Witness ==
    \E r1, r2 \in Reqs :
        /\ SameKeyRequests(r1, r2)
        /\ r1 \in completedBefore[r2]
        /\ ServedFresh(r1)
        /\ stored[r1] # <<>>
        /\ ServedFromCache(r2)
        /\ cachedPrediction[r2] = stored[r1]
        /\ Calls(r1, "fetch gemini") = 1
        /\ Calls(r2, "fetch gemini") = 0

\* The rows price_predictions can hold before the first request
InitialRows == UNION { {c[i] : i \in 1..Len(c)} : c \in InitialCaches }

\* C28: a request answered with 429 or 500 has written nothing to the cache;
\* every record of the cache that a request has written was written by a
\* request that obtained a recommendation and was answered with 200, so the
\* record served to a later request is never that of a failed AI call.
C28_ErrorsAreNeverCached ==
    /\ \A r \in Reqs :
           (Answered(r) /\ response[r].status # 200)
           => /\ stored[r] = <<>>
              /\ ~HasMade(r, "insert price_predictions")
    /\ \A i \in 1..Len(cache) :
           \/ cache[i] \in InitialRows
           \/ \E r \in Reqs :
                  /\ ServedFresh(r)
                  /\ stored[r] = <<cache[i]>>
                  /\ aiRecommendation[r] # NoObject
                  /\ RecommendationOf(cache[i].gemini_response)
                       = RecommendationOf(aiRecommendation[r])
                  /\ geminiAnswer[r].kind = "http"
                  /\ geminiAnswer[r].status \in 200..299
    /\ \A r \in Reqs :
           ServedFromCache(r)
           => \/ cachedPrediction[r][1] \in InitialRows
              \/ \E q \in Reqs : ServedFresh(q) /\ stored[q] = cachedPrediction[r]

\* C28 happens: one request was rate limited, and the other, for the same
\* key, then found nothing in the cache and stored a record of its own
C28_Witness ==
    \E r1, r2 \in Reqs :
        /\ SameKeyRequests(r1, r2)
        /\ Answered(r1)
        /\ response[r1].status = 429
        /\ ServedFresh(r2)
        /\ cache = stored[r2]
        /\ Len(cache) = 1

\* C29: a request answered from the record that a fresh request stored
\* carries the base_city_prices and the adjusted_prices of that fresh
\* request's response.
C29_CachedResponseRepeatsPrices ==
    \A r1, r2 \in Reqs :
        (/\ ServedFresh(r1)
         /\ stored[r1] # <<>>
         /\ ServedFromCache(r2)
         /\ cachedPrediction[r2] = stored[r1])
        => /\ response[r2].base_city_prices = response[r1].base_city_prices
           /\ response[r2].adjusted_prices = response[r1].adjusted_prices

\* The months a peak_months text of the library's inputs names
PeakMonthsNamed(peakText) ==
    CASE peakText = <<"10, 11,12">> -> {10, 11, 12}
      [] peakText = <<"9">> -> {9}
      [] OTHER -> {}

\* How many of the returned events have the impact
Listed(impact) ==
    Cardinality({i \in 1..Len(demandContext.events) : demandContext.events[i].impact = impact})

\* C21: the demand score of calculateDemandContext is the smaller of 1.0 and
\* the sum of 0.30 (when the check-in month is a peak month of the row) and,
\* for every returned event, 0.10 (low), 0.20 (medium), 0.30 (high) or 0.40
\* (very_high); it lies between 0 and 1.0.
C21_ScoreIsCappedWeightedSum ==
    demandCall.made
    => LET peak == /\ demandCall.cityDemand # <<>>
                   /\ (demandCall.checkIn \div 100) % 100
                        \in PeakMonthsNamed(demandCall.cityDemand[1].peak_months)
           sum  == (IF peak THEN 30 ELSE 0) + 10 * Listed("low") + 20 * Listed("medium")
                     + 30 * Listed("high") + 40 * Listed("very_high")
       IN  /\ demandContext.is_peak_month <=> peak
           /\ demandContext.demand_score = (IF sum > 100 THEN 100 ELSE sum)
           /\ demandContext.demand_score >= 0
           /\ demandContext.demand_score <= 100
           /\ Listed("low") + Listed("medium") + Listed("high") + Listed("very_high")
                = Len(demandContext.events)

\* C21 happens: a call in a peak month with four overlapping events whose
\* weights add up to more than 1.0, and the score is 1.0
C21_Witness ==
    /\ demandCall.made
    /\ demandContext.is_peak_month
    /\ Len(demandContext.events) = 4
    /\ 30 + 10 * Listed("low") + 20 * Listed("medium") + 30 * Listed("high")
          + 40 * Listed("very_high") > 100
    /\ demandContext.demand_score = 100

\* The events of the row that calculateDemandContext was called with
EventsOfCall ==
    parseEvents(IF demandCall.cityDemand = <<>> THEN <<>> ELSE demandCall.cityDemand[1].events)

\* The event is one of the returned events
IsListed(event) == \E i \in 1..Len(demandContext.events) : demandContext.events[i] = event

\* The date lies in the event's range, both ends included
InRange(date, event) == event.start <= date /\ date <= event.end

\* C22 as stated: an event is returned exactly when the check-in date lies in
\* its range, or the check-out date does, or the stay lies inside its range.
C22_OverlapByStayInsideEvent ==
    demandCall.made
    => \A k \in 1..Len(EventsOfCall) :
           IsListed(EventsOfCall[k])
           <=> \/ InRange(demandCall.checkIn, EventsOfCall[k])
               \/ InRange(demandCall.checkOut, EventsOfCall[k])
               \/ (EventsOfCall[k].start <= demandCall.checkIn
                     /\ demandCall.checkOut <= EventsOfCall[k].end)

\* C22 amended: an event is returned exactly when the check-in date lies in
\* its range, or the check-out date does, or the event's range lies inside
\* the stay; the returned events keep the order of the events string.
C22_OverlapByEventInsideStay ==
    demandCall.made
    => /\ \A k \in 1..Len(EventsOfCall) :
              IsListed(EventsOfCall[k])
              <=> \/ InRange(demandCall.checkIn, EventsOfCall[k])
                  \/ InRange(demandCall.checkOut, EventsOfCall[k])
                  \/ (demandCall.checkIn <= EventsOfCall[k].start
                        /\ EventsOfCall[k].end <= demandCall.checkOut)
       /\ \A i \in 1..Len(demandContext.events) :
              \E k \in 1..Len(EventsOfCall) : demandContext.events[i] = EventsOfCall[k]
       /\ \A i, j \in 1..Len(demandContext.events) :
              i < j => \E k, l \in 1..Len(EventsOfCall) :
                           /\ k < l
                           /\ demandContext.events[i] = EventsOfCall[k]
                           /\ demandContext.events[j] = EventsOfCall[l]

\* C22 happens: a returned event that begins after check-in and ends before
\* check-out, and an event of the row that is not returned
C22_Witness ==
    /\ demandCall.made
    /\ \E i \in 1..Len(demandContext.events) :
           /\ demandCall.checkIn < demandContext.events[i].start
           /\ demandContext.events[i].end < demandCall.checkOut
    /\ \E k \in 1..Len(EventsOfCall) : ~IsListed(EventsOfCall[k])

\* The shape of "(YYYY-MM-DD~YYYY-MM-DD)", "0" standing for a digit
DatePairShape == "(0000-00-00~0000-00-00)"

\* The text is a parenthesised pair of dates joined by the en dash
IsDatePair(text) ==
    /\ Len(text) = Len(DatePairShape)
    /\ \A i \in 1..Len(DatePairShape) :
           IF Char(DatePairShape, i) = "0" THEN IsDigit(Char(text, i))
           ELSE Char(text, i) = Char(DatePairShape, i)

\* The places of an entry where a date pair stands after at least one character
DatePairPlaces(entry) ==
    {p \in 2..(Len(entry) - Len(DatePairShape) + 1) :
        IsDatePair(SubSeq(entry, p, p + Len(DatePairShape) - 1))}

\* The entry matches the format: a name, then a date pair
MatchesFormat(entry) == DatePairPlaces(entry) # {}

\* What a matching entry says: its name without surrounding blanks, its dates
Reading(entry) ==
    LET p == CHOOSE k \in DatePairPlaces(entry) : \A j \in DatePairPlaces(entry) : k <= j
    IN  [name |-> Trim(SubSeq(entry, 1, p - 1)),
         start |-> DateValue(entry, p + 1), end |-> DateValue(entry, p + 12)]

\* The ';'-separated entries of the argument of parseEvents, trimmed as
\* parseEvents sees them
EntriesOfCall ==
    IF parseCall.eventsStr = <<>> THEN <<>>
    ELSE [i \in 1..Len(Split(parseCall.eventsStr[1], ";")) |->
              Trim(Split(parseCall.eventsStr[1], ";")[i])]

\* The ';'-separated entries the handler's loop was run on
EntriesOfLoop == Split(handlerLoop.events, ";")

\* C23: parseEvents returns one event for every entry that matches the
\* format, in the order of the entries, with the entry's name and dates, and
\* nothing for the other entries, wherever they stand; an absent or empty
\* string gives no events.  The handler's loop finds an event active exactly
\* when some matching entry contains the check-in date, whatever entries that
\* do not match stand before it, and names the first such entry.
C23_MalformedEntriesSkipped ==
    /\ parseCall.made
       => IF parseCall.eventsStr = <<>> \/ parseCall.eventsStr[1] = ""
          THEN parsedEvents = <<>>
          ELSE LET good == {i \in 1..Len(EntriesOfCall) : MatchesFormat(EntriesOfCall[i])}
               IN  /\ Len(parsedEvents) = Cardinality(good)
                   /\ \A i \in good :
                          LET k == Cardinality({j \in good : j <= i})
                          IN  /\ parsedEvents[k].name = Reading(EntriesOfCall[i]).name
                              /\ parsedEvents[k].start = Reading(EntriesOfCall[i]).start
                              /\ parsedEvents[k].end = Reading(EntriesOfCall[i]).end
    /\ handlerLoop.made
       => LET hits == {i \in 1..Len(EntriesOfLoop) :
                          /\ handlerLoop.events # ""
                          /\ MatchesFormat(EntriesOfLoop[i])
                          /\ Reading(EntriesOfLoop[i]).start <= handlerLoop.check_in
                          /\ handlerLoop.check_in <= Reading(EntriesOfLoop[i]).end}
          IN  /\ handlerLoop.eventActive <=> hits # {}
              /\ hits = {} => handlerLoop.eventName = <<>>
              /\ hits # {}
                   => handlerLoop.eventName
                        = <<Reading(EntriesOfLoop[CHOOSE i \in hits :
                                                      \A j \in hits : i <= j]).name>>

\* C23 happens: parseEvents was given entries that do not match the format
\* before and between entries that do, and returned the matching ones
C23_Witness ==
    /\ parseCall.made
    /\ Len(parsedEvents) >= 2
    /\ \E i, j, k \in 1..Len(EntriesOfCall) :
           /\ i < j /\ j < k
           /\ MatchesFormat(EntriesOfCall[i])
           /\ ~MatchesFormat(EntriesOfCall[j])
           /\ MatchesFormat(EntriesOfCall[k])
           /\ parsedEvents[1].start = Reading(EntriesOfCall[i]).start
           /\ parsedEvents[2].start = Reading(EntriesOfCall[k]).start

\* The name contains the word, whatever the case of the name's letters
HasWord(name, word) ==
    \E i \in 1..(Len(name) - Len(word) + 1) :
        \A k \in 1..Len(word) : Lower(Char(name, i + k - 1)) = Char(word, k)

\* The highest severity whose keywords the name contains
HighestSeverity(name) ==
    IF \E w \in {"kumbh", "diwali", "new year"} : HasWord(name, w) THEN "very_high"
    ELSE IF \E w \in {"wedding", "durga puja", "navratri"} : HasWord(name, w) THEN "high"
    ELSE IF \E w \in {"festival", "jayanti", "puja"} : HasWord(name, w) THEN "medium"
    ELSE "low"

\* C24: the impact of every parsed event is the highest severity among the
\* keyword groups its name matches, letters compared without case: a name
\* with "durga puja" is high, a name with "diwali" and "festival" is
\* very_high, a name without keyword is low.
C24_SeverityIsHighestGroup ==
    parseCall.made
    => \A k \in 1..Len(parsedEvents) :
           /\ parsedEvents[k].impact = HighestSeverity(parsedEvents[k].name)
           /\ HasWord(parsedEvents[k].name, "durga puja") => parsedEvents[k].impact = "high"
           /\ (HasWord(parsedEvents[k].name, "diwali")
                 /\ HasWord(parsedEvents[k].name, "festival"))
                => parsedEvents[k].impact = "very_high"

\* C24 happens: the parsed events hold "Diwali Festival" as very_high,
\* "Durga Puja" as high and a name in capitals as very_high
C24_Witness ==
    /\ parseCall.made
    /\ \E i, j, k \in 1..Len(parsedEvents) :
           /\ parsedEvents[i].name = "Diwali Festival"
           /\ parsedEvents[i].impact = "very_high"
           /\ parsedEvents[j].name = "Durga Puja"
           /\ parsedEvents[j].impact = "high"
           /\ parsedEvents[k].name = "NEW YEAR Gala"
           /\ parsedEvents[k].impact = "very_high"

---------------------------------------------------------------------------
\* Both date inputs of the search form hold a date
BothDatesSet == filters.checkIn # "" /\ filters.checkOut # ""

\* Fewer than 2000 ms have passed since the last call of the backend
WithinDebounce ==
    /\ invoked # <<>>
    /\ dateNow - invoked[Len(invoked)].at < 2000

\* The titles of the toasts of a failed request
FailureTitles == {"AI Service Busy", "Prediction Failed"}

\* C30: the panel calls predict-price only when both dates are set and at
\* least 2000 ms have passed since the last accepted request; where a click
\* is rejected (a date missing, or fewer than 2000 ms passed) no step calls
\* the backend or changes loading or the displayed prediction; loading is
\* true exactly while an accepted request is awaited and false once it has
\* completed; and a request that fails leaves the displayed prediction as it
\* was.
C30_PanelRequestsAreDebounced ==
    [][ /\ invoked' # invoked =>
            /\ invoked' = Append(invoked, invoked'[Len(invoked')])
            /\ BothDatesSet
            /\ ~WithinDebounce
            /\ invoked'[Len(invoked')].at = dateNow
            /\ loading'
        /\ (invocation = <<>> /\ (~BothDatesSet \/ WithinDebounce)) =>
            /\ invoked' = invoked
            /\ invocation' = <<>>
            /\ loading' = loading
            /\ prediction' = prediction
        /\ loading' = (invocation' # <<>>)
        /\ (invocation # <<>> /\ invocation' = <<>>) =>
            /\ ~loading'
            /\ toast' \in FailureTitles => prediction' = prediction
      ]_vars

\* A prediction is displayed after two accepted requests exactly 2000 ms
\* apart, and a click less than 2000 ms after the second was turned away
C30_Witness ==
    /\ Len(invoked) = 2
    /\ invoked[2].at - invoked[1].at = 2000
    /\ dateNow - invoked[2].at < 2000
    /\ toast = "Please wait"
    /\ prediction # <<>>
    /\ ~loading

===========================================================================
